---- MODULE Spec2Model ----
(***************************************************************************)
(* A model of the ibkr client (src/src/client.rs, wire.rs, historical.rs,  *)
(* message.rs): the reader task ("pump"), the pending registry, the        *)
(* request-id counter, the writer guard and the callers of account_values  *)
(* and historical_data.                                                    *)
(*                                                                         *)
(* Bytes are the integers 0..255, a string or a buffer is a sequence of    *)
(* bytes, an Option is a record [some |-> FALSE] or [some |-> TRUE,        *)
(* val |-> v].                                                             *)
(***************************************************************************)
EXTENDS Integers, Sequences, FiniteSets, TLC

\* ------------------------------------------------------------------ bounds

\* The number of calls (account_values or historical_data) made on the connection.
MaxCalls == 2

\* The runs of answered calls between the calls followed step by step.
MaxRuns == 3

\* The number of calls whose send fails with an I/O error.
MaxSendFailures == 1

\* The number of calls whose timeout passes.
MaxTimeouts == 1

\* ------------------------------------------------------------ basic values

None == [some |-> FALSE]

Some(v) == [some |-> TRUE, val |-> v]

\* The NUL byte that ends every field.
NUL == 0

\* ASCII codes used by the text form of numbers.
Ch0 == 48

ChPlus == 43

ChMinus == 45

ChDot == 46

IsDigit(b) == b >= Ch0 /\ b <= Ch0 + 9

\* i32::MAX and i32::MIN. (TLC's integers are exactly the i32 values.)
I32Max == 2147483647

I32Min == -I32Max - 1

\* n + 1 in i32 arithmetic that wraps around on overflow (AtomicI32::fetch_add).
WrappingInc(n) == IF n = I32Max THEN I32Min ELSE n + 1

\* std::cmp::min on usize.
Min(a, b) == IF a < b THEN a ELSE b

\* ----------------------------------------------------- text form of numbers

\* The decimal digits of a natural number (Display for u32 / usize).
RECURSIVE Dec(_)
Dec(n) == IF n < 10 THEN <<Ch0 + n>> ELSE Append(Dec(n \div 10), Ch0 + (n % 10))

\* Display for i32.
DisplayI32(n) == IF n < 0 THEN <<ChMinus>> \o Dec(-n) ELSE Dec(n)

\* The value of a sequence of ASCII digits.
RECURSIVE DigitsValue(_)
DigitsValue(s) ==
    IF s = <<>> THEN 0
    ELSE 10 * DigitsValue(SubSeq(s, 1, Len(s) - 1)) + (s[Len(s)] - Ch0)

\* The same value counted downwards, as the parse of a negative number does.
RECURSIVE NegDigitsValue(_)
NegDigitsValue(s) ==
    IF s = <<>> THEN 0
    ELSE 10 * NegDigitsValue(SubSeq(s, 1, Len(s) - 1)) - (s[Len(s)] - Ch0)

AllDigits(s) == \A i \in 1..Len(s) : IsDigit(s[i])

\* s without its leading zeros.
RECURSIVE StripZeros(_)
StripZeros(s) == IF s # <<>> /\ s[1] = Ch0 THEN StripZeros(Tail(s)) ELSE s

\* Whether digit string a (no leading zeros) is at most digit string b as a number.
RECURSIVE DigitsLeq(_, _)
DigitsLeq(a, b) ==
    IF Len(a) # Len(b) THEN Len(a) < Len(b)
    ELSE IF a = <<>> THEN TRUE
    ELSE IF a[1] # b[1] THEN a[1] < b[1]
    ELSE DigitsLeq(Tail(a), Tail(b))

\* The digits of i32::MAX, of -i32::MIN and of u32::MAX.
I32MaxDigits == <<50, 49, 52, 55, 52, 56, 51, 54, 52, 55>>

I32MinDigits == <<50, 49, 52, 55, 52, 56, 51, 54, 52, 56>>

U32MaxDigits == <<52, 50, 57, 52, 57, 54, 55, 50, 57, 53>>

\* A u32 from 2^31 on is no integer TLC can hold: it is kept as this value, which
\* is no message id.
BigU32 == -1

\* str::parse::<i32>: an optional sign, at least one digit, nothing else; a value
\* that does not fit is an error.
ParseI32(s) ==
    LET signed == s # <<>> /\ s[1] \in {ChPlus, ChMinus}
        neg    == signed /\ s[1] = ChMinus
        digits == IF signed THEN Tail(s) ELSE s
    IN  IF digits = <<>> \/ ~AllDigits(digits) THEN None
        ELSE IF neg
             THEN IF DigitsLeq(StripZeros(digits), I32MinDigits)
                  THEN Some(NegDigitsValue(digits)) ELSE None
        ELSE IF DigitsLeq(StripZeros(digits), I32MaxDigits)
             THEN Some(DigitsValue(digits)) ELSE None

\* str::parse::<u32>: an optional '+', at least one digit; '-' is an error.
ParseU32(s) ==
    LET signed == s # <<>> /\ s[1] = ChPlus
        digits == IF signed THEN Tail(s) ELSE s
    IN  IF digits = <<>> \/ ~AllDigits(digits) THEN None
        ELSE IF DigitsLeq(StripZeros(digits), I32MaxDigits) THEN Some(DigitsValue(digits))
        ELSE IF DigitsLeq(StripZeros(digits), U32MaxDigits) THEN Some(BigU32)
        ELSE None

\* An f64 read from decimal text is kept as sign, mantissa and number of
\* fraction digits, with trailing fraction zeros removed: neg * mant / 10^scale.
RECURSIVE NormF64(_, _, _)
NormF64(neg, mant, scale) ==
    IF scale > 0 /\ mant % 10 = 0 THEN NormF64(neg, mant \div 10, scale - 1)
    ELSE [neg |-> neg, mant |-> mant, scale |-> scale]

F64Zero == [neg |-> FALSE, mant |-> 0, scale |-> 0]

\* The position of the first '.' in s, or 0.
RECURSIVE DotAt(_, _)
DotAt(s, i) ==
    IF i > Len(s) THEN 0 ELSE IF s[i] = ChDot THEN i ELSE DotAt(s, i + 1)

\* str::parse::<f64> on plain decimal text: an optional sign, digits with at most
\* one '.', at least one digit. (Exponents, "inf", "nan" and numbers of more than
\* nine digits are not used by the frames of this model.)
ParseF64(s) ==
    LET signed == s # <<>> /\ s[1] \in {ChPlus, ChMinus}
        body   == IF signed THEN Tail(s) ELSE s
        dot    == DotAt(body, 1)
        int    == IF dot = 0 THEN body ELSE SubSeq(body, 1, dot - 1)
        frac   == IF dot = 0 THEN <<>> ELSE SubSeq(body, dot + 1, Len(body))
    IN  IF int \o frac = <<>> \/ ~AllDigits(int \o frac) THEN None
        ELSE Some(NormF64(signed /\ s[1] = ChMinus, DigitsValue(int \o frac), Len(frac)))

\* ------------------------------------------------------------- wire.rs

\* make_field: the text of the value followed by NUL.
make_field(text) == Append(text, NUL)

\* The four bytes in little-endian order.
ToLeBytes(n) ==
    <<n % 256, (n \div 256) % 256, (n \div 65536) % 256, n \div 16777216>>

\* u32::to_be_bytes of `n as u32`, for a length n below 2^31.
ToBeBytes(n) ==
    <<n \div 16777216, (n \div 65536) % 256, (n \div 256) % 256, n % 256>>

\* u32::from_be_bytes, for a value below 2^31 (b[1] < 128).
FromBeBytes(b) == ((b[1] * 256 + b[2]) * 256 + b[3]) * 256 + b[4]

\* The bytes send_raw writes for a payload: first the header, then the payload.
FrameHeader(payload) == ToBeBytes(Len(payload))

encode_frame(payload) == FrameHeader(payload) \o payload

\* An extraction that does not wait for the declared length: it yields what has
\* arrived of the message once the header is there.
extract_message_eager(buf) ==
    IF Len(buf) < 4 THEN [some |-> FALSE]
    ELSE IF buf[1] >= 128 THEN [some |-> FALSE]
    ELSE LET len == ((buf[1] * 256 + buf[2]) * 256 + buf[3]) * 256 + buf[4]
             end == IF Len(buf) - 4 >= len THEN 4 + len ELSE Len(buf)
         IN  [some |-> TRUE,
              val  |-> [msg  |-> SubSeq(buf, 5, end),
                        rest |-> SubSeq(buf, end + 1, Len(buf))]]

\* An extraction that wants a byte more than the declared length.
extract_message_strict(buf) ==
    IF Len(buf) < 4 THEN None
    ELSE IF buf[1] >= 128 THEN None
    ELSE LET len == FromBeBytes(SubSeq(buf, 1, 4))
         IN  IF Len(buf) - 4 > len
             THEN Some([msg  |-> SubSeq(buf, 5, 4 + len),
                        rest |-> SubSeq(buf, 5 + len, Len(buf))])
             ELSE None

\* Client::extract_message (and wire::extract_message, the same code).
\* A declared length of 2^31 or more exceeds every buffer of the model, and
\* `buf.len() >= 4 + len` is written `buf.len() - 4 >= len`.
extract_message(buf) ==
    IF Len(buf) < 4 THEN None
    ELSE IF buf[1] >= 128 THEN None
    ELSE LET len == FromBeBytes(SubSeq(buf, 1, 4))
         IN  IF Len(buf) - 4 >= len
             THEN Some([msg  |-> SubSeq(buf, 5, 4 + len),
                        rest |-> SubSeq(buf, 5 + len, Len(buf))])
             ELSE None

\* The message the next turn of the reader task's while loop dispatches when
\* recv_buf holds buf.
FirstMessage(buf) == extract_message(buf).val.msg

\* Whether b is a UTF-8 continuation byte.
IsCont(b) == b >= 128 /\ b <= 191

\* std::str::from_utf8(buf).is_ok(), from position i on.
RECURSIVE IsUtf8From(_, _)
IsUtf8From(buf, i) ==
    IF i > Len(buf) THEN TRUE
    ELSE LET b == buf[i]
             has(k) == i + k <= Len(buf) /\ \A j \in 1..k : IsCont(buf[i + j])
         IN  IF b < 128 THEN IsUtf8From(buf, i + 1)
             ELSE IF b >= 194 /\ b <= 223 THEN has(1) /\ IsUtf8From(buf, i + 2)
             ELSE IF b >= 224 /\ b <= 239
                  THEN /\ has(2)
                       /\ (b = 224 => buf[i + 1] >= 160)
                       /\ (b = 237 => buf[i + 1] <= 159)
                       /\ IsUtf8From(buf, i + 3)
             ELSE IF b >= 240 /\ b <= 244
                  THEN /\ has(3)
                       /\ (b = 240 => buf[i + 1] >= 144)
                       /\ (b = 244 => buf[i + 1] <= 143)
                       /\ IsUtf8From(buf, i + 4)
             ELSE FALSE

\* str::split('\0'): the pieces between NUL bytes, the empty ones included.
RECURSIVE SplitNul(_, _, _)
SplitNul(buf, i, cur) ==
    IF i > Len(buf) THEN <<cur>>
    ELSE IF buf[i] = NUL THEN <<cur>> \o SplitNul(buf, i + 1, <<>>)
    ELSE SplitNul(buf, i + 1, Append(cur, buf[i]))

\* Iterator::filter(|s| !s.is_empty()).
NonEmpty(s) == s # <<>>

\* FieldIterator::new: from_utf8(buf).unwrap_or(""), split on NUL, the empty
\* pieces dropped.
FieldIteratorNew(buf) ==
    [fields   |-> SelectSeq(SplitNul(IF IsUtf8From(buf, 1) THEN buf ELSE <<>>, 1, <<>>),
                            NonEmpty),
     position |-> 0]

\* FieldIterator::next_string: the field and the iterator after the call.
next_string(it) ==
    IF it.position < Len(it.fields)
    THEN [val |-> Some(it.fields[it.position + 1]),
          it  |-> [it EXCEPT !.position = @ + 1]]
    ELSE [val |-> None, it |-> it]

\* FieldIterator::next::<u32>.
next_u32(it) ==
    LET r == next_string(it)
    IN  [val |-> IF r.val.some THEN ParseU32(r.val.val) ELSE None, it |-> r.it]

\* FieldIterator::next_i32.
next_i32(it) ==
    LET r == next_string(it)
        p == IF r.val.some THEN ParseI32(r.val.val) ELSE None
    IN  [val |-> IF p.some THEN p.val ELSE 0, it |-> r.it]

\* FieldIterator::next_f64.
next_f64(it) ==
    LET r == next_string(it)
        p == IF r.val.some THEN ParseF64(r.val.val) ELSE None
    IN  [val |-> IF p.some THEN p.val ELSE F64Zero, it |-> r.it]

\* FieldIterator::next_bool.
next_bool(it) == [val |-> next_i32(it).val # 0, it |-> next_i32(it).it]

\* A skip that does not stop at the number of fields.
skip_unclamped(it, n) == [it EXCEPT !.position = it.position + n]

\* FieldIterator::skip.
skip(it, n) == [it EXCEPT !.position = Min(it.position + n, Len(it.fields))]

\* Whether `self.position + n` overflows a usize for n = usize::MAX - j.
SkipOverflows(it, j) == it.position >= j + 1

\* FieldIterator::skip(usize::MAX - j) where the sum wraps (a build without
\* overflow checks) or does not overflow: position + n modulo the width of usize,
\* then the minimum with the number of fields.
skip_near_max(it, j) ==
    [it EXCEPT !.position = IF SkipOverflows(it, j)
                            THEN Min(it.position - j - 1, Len(it.fields))
                            ELSE Len(it.fields)]

\* Whether the slice of remaining() starts after the end of the fields, where
\* the indexing panics.
RemainingOutOfRange(it) == it.position > Len(it.fields)

\* FieldIterator::remaining.
remaining(it) == SubSeq(it.fields, it.position + 1, Len(it.fields))

\* Option<&str>::unwrap_or("").
UnwrapOrEmpty(o) == IF o.some THEN o.val ELSE <<>>

\* ------------------------------------------------------------- message.rs

\* OutgoingMessageId.
ReqAccountData == 6

ReqHistoricalData == 20

CancelHistoricalData == 25

StartApi == 71

\* A from_u32 that takes a historical-data update for historical data.
from_u32_update_as_data(value) ==
    CASE value = 4   -> "Error"
      [] value = 6   -> "AccountValue"
      [] value = 7   -> "PortfolioValue"
      [] value = 8   -> "AccountDownloadEnd"
      [] value = 9   -> "NextValidId"
      [] value = 15  -> "ManagedAccounts"
      [] value = 17  -> "HistoricalData"
      [] value = 90  -> "HistoricalData"
      [] value = 108 -> "HistoricalDataEnd"
      [] OTHER       -> "None"

\* IncomingMessageId::from_u32: the variant's name, or "None".
from_u32(value) ==
    CASE value = 4   -> "Error"
      [] value = 6   -> "AccountValue"
      [] value = 7   -> "PortfolioValue"
      [] value = 8   -> "AccountDownloadEnd"
      [] value = 9   -> "NextValidId"
      [] value = 15  -> "ManagedAccounts"
      [] value = 17  -> "HistoricalData"
      [] value = 90  -> "HistoricalDataUpdate"
      [] value = 108 -> "HistoricalDataEnd"
      [] OTHER       -> "None"

\* ------------------------------------------------------------- contract.rs

\* SecurityType::as_str.
SecurityTypeStr(t) ==
    CASE t = "Stock"  -> <<83, 84, 75>>
      [] t = "Option" -> <<79, 80, 84>>
      [] t = "Future" -> <<70, 85, 84>>
      [] t = "Index"  -> <<73, 78, 68>>
      [] t = "Forex"  -> <<70, 79, 82, 69, 88>>
      [] t = "Cash"   -> <<67, 65, 83, 72>>
      [] t = "Cfd"    -> <<67, 70, 68>>
      [] t = "Bag"    -> <<66, 65, 71>>

\* OptionRight::as_str.
OptionRightStr(r) ==
    CASE r = "None" -> <<>>
      [] r = "Call" -> <<67>>
      [] r = "Put"  -> <<80>>

RECURSIVE Pow10(_)
Pow10(k) == IF k = 0 THEN 1 ELSE 10 * Pow10(k - 1)

\* n as exactly k decimal digits (leading zeros kept).
RECURSIVE DecPad(_, _)
DecPad(n, k) == IF k = 0 THEN <<>> ELSE Append(DecPad(n \div 10, k - 1), Ch0 + (n % 10))

\* Display for f64, for the decimal values of this model.
DisplayF64(f) ==
    (IF f.neg THEN <<ChMinus>> ELSE <<>>)
    \o Dec(f.mant \div Pow10(f.scale))
    \o (IF f.scale = 0 THEN <<>>
        ELSE <<ChDot>> \o DecPad(f.mant % Pow10(f.scale), f.scale))

\* `strike == 0.0` (true of -0.0 as well).
F64IsZero(f) == f.mant = 0

\* Contract::stock.
ContractStock(symbol, exchange, currency) ==
    [con_id |-> 0, symbol |-> symbol, sec_type |-> "Stock", last_trade_date |-> <<>>,
     strike |-> F64Zero, right |-> "None", multiplier |-> <<>>, exchange |-> exchange,
     primary_exchange |-> <<>>, currency |-> currency, local_symbol |-> <<>>,
     trading_class |-> <<>>, include_expired |-> FALSE]

\* Contract::encode.
ContractEncode(c) ==
    make_field(DisplayI32(c.con_id))
    \o make_field(c.symbol)
    \o make_field(SecurityTypeStr(c.sec_type))
    \o make_field(c.last_trade_date)
    \o (IF F64IsZero(c.strike) THEN make_field(<<>>)
        ELSE make_field(DisplayF64(c.strike)))
    \o make_field(OptionRightStr(c.right))
    \o make_field(c.multiplier)
    \o make_field(c.exchange)
    \o make_field(c.primary_exchange)
    \o make_field(c.currency)
    \o make_field(c.local_symbol)
    \o make_field(c.trading_class)

\* ------------------------------------------------------------ historical.rs

\* BarSize::as_str.
BarSizeStr(b) ==
    CASE b = "Sec1"  -> <<49, 32, 115, 101, 99>>
      [] b = "Sec5"  -> <<53, 32, 115, 101, 99, 115>>
      [] b = "Sec15" -> <<49, 53, 32, 115, 101, 99, 115>>
      [] b = "Sec30" -> <<51, 48, 32, 115, 101, 99, 115>>
      [] b = "Min1"  -> <<49, 32, 109, 105, 110>>
      [] b = "Min2"  -> <<50, 32, 109, 105, 110, 115>>
      [] b = "Min3"  -> <<51, 32, 109, 105, 110, 115>>
      [] b = "Min5"  -> <<53, 32, 109, 105, 110, 115>>
      [] b = "Min15" -> <<49, 53, 32, 109, 105, 110, 115>>
      [] b = "Min30" -> <<51, 48, 32, 109, 105, 110, 115>>
      [] b = "Hour1" -> <<49, 32, 104, 111, 117, 114>>
      [] b = "Day1"  -> <<49, 32, 100, 97, 121>>

\* WhatToShow::as_str.
WhatToShowStr(w) ==
    CASE w = "Trades"   -> <<84, 82, 65, 68, 69, 83>>
      [] w = "Midpoint" -> <<77, 73, 68, 80, 79, 73, 78, 84>>
      [] w = "Bid"      -> <<66, 73, 68>>
      [] w = "Ask"      -> <<65, 83, 75>>
      [] w = "BidAsk"   -> <<66, 73, 68, 95, 65, 83, 75>>
      [] w = "HistoricalVolatility" ->
            <<72, 73, 83, 84, 79, 82, 73, 67, 65, 76, 95,
              86, 79, 76, 65, 84, 73, 76, 73, 84, 89>>
      [] w = "OptionImpliedVolatility" ->
            <<79, 80, 84, 73, 79, 78, 95, 73, 77, 80, 76, 73, 69, 68, 95,
              86, 79, 76, 65, 84, 73, 76, 73, 84, 89>>

\* Duration::as_string: the count, a space and the unit letter.
DurationStr(d) ==
    Dec(d.n) \o
    (CASE d.unit = "Seconds" -> <<32, 83>>
       [] d.unit = "Days"    -> <<32, 68>>
       [] d.unit = "Weeks"   -> <<32, 87>>
       [] d.unit = "Months"  -> <<32, 77>>
       [] d.unit = "Years"   -> <<32, 89>>)

\* `if b { 1 } else { 0 }` as text.
BoolField(b) == make_field(Dec(IF b THEN 1 ELSE 0))

\* DateFormat::String as i32.
DateFormatString == 1

\* HistoricalDataRequest::new followed by the builder calls of historical_data.
HistoricalDataRequestNew(req_id, contract, duration, bar_size, what_to_show, use_rth) ==
    [req_id |-> req_id, contract |-> contract, end_date_time |-> <<>>,
     duration |-> duration, bar_size |-> bar_size, what_to_show |-> what_to_show,
     use_rth |-> use_rth, format_date |-> DateFormatString, keep_up_to_date |-> FALSE]

\* HistoricalDataRequest::encode.
HistoricalDataRequestEncode(r) ==
    make_field(Dec(ReqHistoricalData))
    \o make_field(DisplayI32(r.req_id))
    \o ContractEncode(r.contract)
    \o BoolField(r.contract.include_expired)
    \o make_field(r.end_date_time)
    \o make_field(BarSizeStr(r.bar_size))
    \o make_field(DurationStr(r.duration))
    \o BoolField(r.use_rth)
    \o make_field(WhatToShowStr(r.what_to_show))
    \o make_field(DisplayI32(r.format_date))
    \o BoolField(r.keep_up_to_date)
    \o make_field(<<>>)

\* BarData::parse: None when no field is left for the date, else the bar built
\* from the next eight fields.
BarDataParse(it) ==
    LET d  == next_string(it)
        o  == next_f64(d.it)
        h  == next_f64(o.it)
        l  == next_f64(h.it)
        c  == next_f64(l.it)
        v  == next_f64(c.it)
        w  == next_f64(v.it)
        n  == next_i32(w.it)
    IN  IF ~d.val.some THEN [val |-> None, it |-> it]
        ELSE [val |-> Some([date |-> d.val.val, open |-> o.val, high |-> h.val,
                            low |-> l.val, close |-> c.val, volume |-> v.val,
                            wap |-> w.val, bar_count |-> n.val]),
              it  |-> n.it]

\* --------------------------------------------------------------- state

VARIABLES
    next_req_id,   \* Client.next_req_id
    pending,       \* Client.pending: request id -> the call whose Sender is stored
    writer,        \* the holder of the writer guard: a call, or 0 when it is free
    wire_out,      \* what the send in progress has written to the transport so
                   \* far, in order, and by which call (empty when no send is)
    pc,            \* where each call is in account_values / historical_data
    kind,          \* which of the two functions the call runs
    req_id,        \* the call's local req_id
    result,        \* what the call returned
    chan,          \* the call's oneshot channel
    pump_pc,       \* where the reader task is
    recv_buf,      \* the reader task's recv_buf
    stage,         \* in the specifications of the codecs: the step reached
    input,         \* ... the values given to the codec
    bytes,         \* ... the bytes produced from them, or still to be read
    output         \* ... what was decoded from the bytes

\* The variables of the specifications of the codecs, which the client leaves alone.
aux == <<stage, input, bytes, output>>

vars == <<next_req_id, pending, writer, wire_out, pc, kind, req_id, result, chan,
          pump_pc, recv_buf, stage, input, bytes, output>>

Calls == 1..MaxCalls

\* AtomicI32::new(1000).
FirstReqId == 1000

\* ---------------------------------------------------- the oneshot channel

\* A channel that does not exist yet.
NoChannel == [tx_alive |-> FALSE, rx_alive |-> FALSE, val |-> None, sends |-> 0]

\* oneshot::channel().
NewChannel == [tx_alive |-> TRUE, rx_alive |-> TRUE, val |-> None, sends |-> 0]

\* `let _ = tx.send(msg)`: the Sender is consumed; the value is stored when the
\* Receiver is alive and dropped otherwise.
SenderSend(ch, c, msg) ==
    [ch EXCEPT ![c] = IF @.rx_alive
                      THEN [@ EXCEPT !.tx_alive = FALSE, !.val = Some(msg),
                                     !.sends = @ + 1]
                      ELSE [@ EXCEPT !.tx_alive = FALSE]]

\* A Sender dropped without a send.
SenderDrop(ch, c) == [ch EXCEPT ![c].tx_alive = FALSE]

\* The Receiver dropped (the call returned), with what it held.
ReceiverDrop(ch, c) == [ch EXCEPT ![c].rx_alive = FALSE, ![c].val = None]

\* ------------------------------------------------------ ResponseMessage

AccountValuesMsg(values) == [type |-> "AccountValues", data |-> [values |-> values]]

HistoricalDataMsg(start, end, bars) ==
    [type |-> "HistoricalData", data |-> [start |-> start, end |-> end, bars |-> bars]]

ErrorMsg(code, message) ==
    [type |-> "Error", data |-> [code |-> code, message |-> message]]

\* ------------------------------------------------- the pending registry

\* HashMap::remove.
MapRemove(p, id) == [k \in DOMAIN p \ {id} |-> p[k]]

\* HashMap::insert.
MapInsert(p, id, c) == [k \in DOMAIN p \cup {id} |-> IF k = id THEN c ELSE p[k]]

\* A resolution that sends to the entry of the id and empties the registry.
RemoveAndSendClearing(p, ch, id, msg) ==
    IF id \in DOMAIN p
    THEN [panic |-> FALSE, pending |-> <<>>, chan |-> SenderSend(ch, p[id], msg)]
    ELSE [panic |-> FALSE, pending |-> p, chan |-> ch]

\* A resolution that unwraps the result of the send: it panics when the Receiver
\* is gone.
RemoveAndSendUnwrap(p, ch, id, msg) ==
    IF id \in DOMAIN p
    THEN [panic |-> ~ch[p[id]].rx_alive, pending |-> MapRemove(p, id),
          chan |-> SenderSend(ch, p[id], msg)]
    ELSE [panic |-> FALSE, pending |-> p, chan |-> ch]

\* `if let Some(tx) = pending.remove(&req_id) { let _ = tx.send(msg); }`
RemoveAndSend(p, ch, id, msg) ==
    IF id \in DOMAIN p
    THEN [panic |-> FALSE, pending |-> MapRemove(p, id),
          chan |-> SenderSend(ch, p[id], msg)]
    ELSE [panic |-> FALSE, pending |-> p, chan |-> ch]

\* ------------------------------------------------------ dispatch_message

\* `for _ in 0..bar_count { if let Some(bar) = BarData::parse(..) { push } }`.
\* Once parse returns None no field is left, and every later turn returns None.
RECURSIVE ParseBars(_, _, _)
ParseBars(it, n, acc) ==
    IF n <= 0 THEN acc
    ELSE LET r == BarDataParse(it)
         IN  IF r.val.some THEN ParseBars(r.it, n - 1, Append(acc, r.val.val))
             ELSE acc

\* Vec::with_capacity(bar_count as usize) panics with "capacity overflow" when the
\* byte size exceeds isize::MAX: `bar_count as usize` is 2^64 + bar_count for a
\* negative bar_count (2^32 + bar_count on a 32-bit target), and a BarData is
\* larger than one byte.
WithCapacityPanics(bar_count) == bar_count < 0

\* What an arm of dispatch_message decides before it locks the registry: nothing
\* to do, a panic, a message for the entry of one id, or a message for the first
\* entry of the registry.
NoMsg == [type |-> "none", data |-> [x |-> 0]]

Ignore == [act |-> "ignore", id |-> 0, msg |-> NoMsg]

Panic == [act |-> "panic", id |-> 0, msg |-> NoMsg]

ResolveId(id, msg) == [act |-> "resolve", id |-> id, msg |-> msg]

ResolveFirst(msg) == [act |-> "first", id |-> 0, msg |-> msg]

\* The AccountDownloadEnd arm (lines 272-282).
AccountDownloadEndArm == ResolveFirst(AccountValuesMsg(<<>>))

\* The HistoricalData arm, up to the lock (lines 283-294).
HistoricalDataArm(fields) ==
    LET id    == next_i32(fields)
        start == next_string(id.it)
        end   == next_string(start.it)
        count == next_i32(end.it)
    IN  IF WithCapacityPanics(count.val) THEN Panic
        ELSE ResolveId(id.val,
                 HistoricalDataMsg(UnwrapOrEmpty(start.val), UnwrapOrEmpty(end.val),
                                   ParseBars(count.it, count.val, <<>>)))

\* Whether the Error arm resolves the id it read.
ErrorIsForRequest(id) == id > 0

\* The Error arm, up to the lock (lines 305-311).
ErrorArm(fields) ==
    LET version == next_i32(fields)
        id      == next_i32(version.it)
        code    == next_i32(id.it)
        message == next_string(code.it)
    IN  IF ErrorIsForRequest(id.val)
        THEN ResolveId(id.val, ErrorMsg(code.val, UnwrapOrEmpty(message.val)))
        ELSE Ignore

\* dispatch_message up to the lock of the registry: the fields are split, the
\* message id read and the arm chosen.
DecodeMessage(buf) ==
    LET fields == FieldIteratorNew(buf)
        msg_id == next_u32(fields)
    IN  IF ~msg_id.val.some THEN Ignore
        ELSE LET id == from_u32(msg_id.val.val)
             IN  CASE id = "AccountValue"       -> Ignore
                   [] id = "AccountDownloadEnd" -> AccountDownloadEndArm
                   [] id = "HistoricalData"     -> HistoricalDataArm(msg_id.it)
                   [] id = "Error"              -> ErrorArm(msg_id.it)
                   [] OTHER                     -> Ignore

\* The keys `pending.iter().next()` may yield: the HashMap's iteration order is
\* not fixed, so any key of the map.
FirstKeys(p) == DOMAIN p

\* dispatch_message from the lock on: the outcomes of a decision, each the
\* registry and the channels afterwards, or a panic of the reader task.
Resolve(d, p, ch) ==
    CASE d.act = "panic"   -> {[panic |-> TRUE, pending |-> p, chan |-> ch]}
      [] d.act = "resolve" -> {RemoveAndSend(p, ch, d.id, d.msg)}
      [] d.act = "first"   ->
            IF FirstKeys(p) = {} THEN {[panic |-> FALSE, pending |-> p, chan |-> ch]}
            ELSE {RemoveAndSend(p, ch, k, d.msg) : k \in FirstKeys(p)}
      [] OTHER             -> {[panic |-> FALSE, pending |-> p, chan |-> ch]}

\* ------------------------------------------- what the gateway may send

\* A payload in the wire format: every field followed by NUL.
RECURSIVE Payload(_)
Payload(fields) ==
    IF fields = <<>> THEN <<>> ELSE make_field(Head(fields)) \o Payload(Tail(fields))

\* Field texts: "s", "e", "d", "d2", "m", "x", "k", "v", "a", "USD".
TxtStart == <<115>>

TxtEnd == <<101>>

TxtDate1 == <<100>>

TxtDate2 == <<100, 50>>

TxtMessage == <<109>>

TxtGarbage == <<120>>

TxtKey == <<107>>

TxtValue == <<118>>

TxtAccount == <<97>>

TxtUsd == <<85, 83, 68>>

\* The eight fields of a bar: date, open, high, low, close, volume, wap, count.
Bar1Fields == <<TxtDate1, <<49, 46, 53>>, Dec(2), Dec(1), <<49, 46, 53>>, Dec(100),
                <<49, 46, 53>>, Dec(7)>>

Bar2Fields == <<TxtDate2, <<50, 46, 50, 53>>, Dec(3), Dec(2), <<50, 46, 53>>,
                TxtGarbage, <<50, 46, 53>>, Dec(9)>>

\* A historical-data message: tag, request id, start, end, bar count, the bars.
HistoricalFrame(id, count, bars) ==
    Payload(<<Dec(17), id, TxtStart, TxtEnd, count>> \o bars)

\* An error message: tag, version, request id, code, text.
ErrorFrame(id, code) == Payload(<<Dec(4), Dec(2), id, code, TxtMessage>>)

\* A number that does not fit an i32.
TxtOversized == <<57, 57, 57, 57, 57, 57, 57, 57, 57, 57, 57>>

\* The request ids the gateway answers: those of the first two calls.
AnsweredIds == {FirstReqId, FirstReqId + 1}

\* The bar count and the bar fields of the historical-data messages of every
\* answered id: one bar, and a negative count.
HistoricalBodies == {<<Dec(1), Bar1Fields>>, <<DisplayI32(-1), <<>>>>}

\* Those of the first id only: two bars; fewer bars than declared; a count that is
\* no number; a count that does not fit an i32; no count field.
MoreHistoricalBodies ==
    {<<Dec(2), Bar1Fields \o Bar2Fields>>, <<Dec(2), Bar1Fields>>,
     <<TxtGarbage, Bar1Fields>>, <<TxtOversized, Bar1Fields>>}

\* A historical-data message of one bar whose start field is empty.
EmptyStartFrame(X) ==
    Payload(<<Dec(17), Dec(X), <<>>, TxtEnd, Dec(1)>> \o Bar1Fields)

\* The historical-data messages that carry request id X.
HistoricalFor(X) ==
    {HistoricalFrame(Dec(X), b[1], b[2]) :
         b \in HistoricalBodies \cup (IF X = FirstReqId THEN MoreHistoricalBodies ELSE {})}
    \cup (IF X = FirstReqId
          THEN {Payload(<<Dec(17), Dec(X), TxtStart, TxtEnd>>), EmptyStartFrame(X)}
          ELSE {})

\* The error messages that carry request id X, all with the text TxtMessage: code
\* 200, and for the first id a code that is no number.
ErrorCodeTexts(X) == {Dec(200)} \cup (IF X = FirstReqId THEN {TxtGarbage} ELSE {})

ErrorFor(X) == {ErrorFrame(Dec(X), code) : code \in ErrorCodeTexts(X)}

HistoricalFrames ==
    UNION {HistoricalFor(X) : X \in AnsweredIds}
    \cup {Payload(<<Dec(17)>>),
          HistoricalFrame(TxtGarbage, Dec(1), Bar1Fields),
          HistoricalFrame(Dec(999), Dec(0), <<>>)}

\* The well-formed responses to the request X: one bar, and the error 200.
ResponsesFor(X) ==
    {HistoricalFrame(Dec(X), Dec(1), Bar1Fields), ErrorFrame(Dec(X), Dec(200))}

\* The error messages that are for no request: id 0, id -1, an id that is no
\* number, an empty id field (before the code 1000), no id field.
ConnectionErrorFrames ==
    {ErrorFrame(Dec(0), Dec(200)),
     ErrorFrame(DisplayI32(-1), Dec(2104)),
     ErrorFrame(TxtGarbage, Dec(200)),
     ErrorFrame(<<>>, Dec(FirstReqId)),
     Payload(<<Dec(4), Dec(2)>>)}

ErrorFrames ==
    UNION {ErrorFor(X) : X \in AnsweredIds}
    \cup ConnectionErrorFrames
    \cup {Payload(<<Dec(4), Dec(2), Dec(FirstReqId)>>)}

\* The account-download-end message.
AccountDownloadEndFrame == Payload(<<Dec(8), Dec(1), TxtAccount>>)

\* Frames with no usable message id: an unknown id, alone and before the fields
\* of an error for the first request; a field 0 that is no number; no field; a
\* byte that is not UTF-8; an empty field 0 before the fields of an error for the
\* first request.
UnroutableFrames ==
    {Payload(<<Dec(99)>>),
     Payload(<<Dec(99), Dec(2), Dec(FirstReqId), Dec(200), TxtMessage>>),
     Payload(<<TxtGarbage>>),
     <<>>,
     <<255>>,
     make_field(<<>>) \o ErrorFrame(Dec(FirstReqId), Dec(200))}

OtherFrames ==
    {AccountDownloadEndFrame,
     Payload(<<Dec(6), Dec(2), TxtKey, TxtValue, TxtUsd, TxtAccount>>),
     Payload(<<Dec(9), Dec(1), Dec(1)>>)}
    \cup UnroutableFrames

\* The payloads of the frames the gateway sends.
InFrames == HistoricalFrames \cup ErrorFrames \cup OtherFrames

\* Reads that return two frames at once: a response and its duplicate, and the
\* responses of two requests in the reverse of the order of the requests.
DoubleChunks ==
    {encode_frame(f) \o encode_frame(f) :
         f \in {HistoricalFrame(Dec(FirstReqId), Dec(1), Bar1Fields)}}
    \cup {encode_frame(HistoricalFrame(Dec(FirstReqId + 1), Dec(1), Bar1Fields))
          \o encode_frame(ErrorFrame(Dec(FirstReqId), Dec(200)))}

\* What one read of the transport returns: here, whole frames.
ReadChunks == {encode_frame(f) : f \in InFrames} \cup DoubleChunks

\* The decisions of dispatch_message for the payloads of the model, computed once.
Decisions == [f \in InFrames |-> DecodeMessage(f)]

\* Client::dispatch_message.
dispatch_message(buf, p, ch) ==
    Resolve(IF buf \in InFrames THEN Decisions[buf] ELSE DecodeMessage(buf), p, ch)

\* ------------------------------------------------------------- the calls

\* The arguments of the historical_data calls.
HistContract == ContractStock(<<65>>, <<88>>, TxtUsd)

HistDuration == [unit |-> "Days", n |-> 1]

\* The payload account_values sends.
AccountValuesPayload ==
    make_field(Dec(ReqAccountData)) \o make_field(Dec(2)) \o make_field(Dec(1))
    \o make_field(<<>>)

\* The payload a call sends.
RequestPayload(c) ==
    IF kind[c] = "account_values" THEN AccountValuesPayload
    ELSE HistoricalDataRequestEncode(
             HistoricalDataRequestNew(req_id[c], HistContract, HistDuration, "Hour1",
                                      "Trades", TRUE))

\* What a call returned: nothing yet, Ok(values or bars), or an Error.
NoResult == [tag |-> "none", data |-> [x |-> 0]]

Ok(v) == [tag |-> "Ok", data |-> [val |-> v]]

ErrTws(code, message) == [tag |-> "Tws", data |-> [code |-> code, message |-> message]]

ErrProtocol(text) == [tag |-> "Protocol", data |-> [text |-> text]]

ErrTimeout == [tag |-> "Timeout", data |-> [x |-> 0]]

ErrIo == [tag |-> "Io", data |-> [x |-> 0]]

\* A counter that is read and not advanced.
FetchAddNextSame(n) == n

\* The value fetch_add stores: the counter plus one.
FetchAddNext(n) == WrappingInc(n)

\* `let req_id = self.next_req_id.fetch_add(1, SeqCst); let (tx, rx) = channel();`
\* The calls are started in the order of their numbers.
CallStart(c, k) ==
    /\ pc[c] = "idle"
    /\ \A d \in Calls : d < c => pc[d] # "idle"
    /\ req_id' = [req_id EXCEPT ![c] = next_req_id]
    /\ next_req_id' = FetchAddNext(next_req_id)
    /\ kind' = [kind EXCEPT ![c] = k]
    /\ chan' = [chan EXCEPT ![c] = NewChannel]
    /\ pc' = [pc EXCEPT ![c] = "allocated"]
    /\ UNCHANGED aux
    /\ UNCHANGED <<pending, writer, wire_out, result, pump_pc, recv_buf>>

\* The registry after `pending.insert(req_id, tx)`.
InsertPending(p, id, c) == MapInsert(p, id, c)

\* `pending.lock().await; pending.insert(req_id, tx);` An entry already stored
\* under the id is replaced and its Sender dropped.
Register(c) ==
    /\ pc[c] = "allocated"
    /\ pending' = InsertPending(pending, req_id[c], c)
    /\ chan' = IF req_id[c] \in DOMAIN pending /\ pending[req_id[c]] # c
               THEN SenderDrop(chan, pending[req_id[c]]) ELSE chan
    /\ pc' = [pc EXCEPT ![c] = "registered"]
    /\ UNCHANGED aux
    /\ UNCHANGED <<next_req_id, writer, wire_out, kind, req_id, result, pump_pc,
                   recv_buf>>

\* A send that does not wait for the writer guard.
CanLockWriterAlways(c) == TRUE

\* Whether `self.writer.lock().await` can return to call c.
CanLockWriter(c) == writer = 0

\* Client::send: the writer guard is taken.
SendLock(c) ==
    /\ pc[c] = "registered"
    /\ CanLockWriter(c)
    /\ writer' = c
    /\ pc' = [pc EXCEPT ![c] = "send_header"]
    /\ UNCHANGED aux
    /\ UNCHANGED <<next_req_id, pending, wire_out, kind, req_id, result, chan,
                   pump_pc, recv_buf>>

\* send_raw: write_all of the length header.
WriteHeader(c) ==
    /\ pc[c] = "send_header"
    /\ wire_out' = Append(wire_out, [by |-> c, part |-> "header",
                                     bytes |-> FrameHeader(RequestPayload(c))])
    /\ pc' = [pc EXCEPT ![c] = "send_payload"]
    /\ UNCHANGED aux
    /\ UNCHANGED <<next_req_id, pending, writer, kind, req_id, result, chan,
                   pump_pc, recv_buf>>

\* send_raw: write_all of the payload.
WritePayload(c) ==
    /\ pc[c] = "send_payload"
    /\ wire_out' = Append(wire_out, [by |-> c, part |-> "payload",
                                     bytes |-> RequestPayload(c)])
    /\ pc' = [pc EXCEPT ![c] = "send_flush"]
    /\ UNCHANGED aux
    /\ UNCHANGED <<next_req_id, pending, writer, kind, req_id, result, chan,
                   pump_pc, recv_buf>>

\* send_raw: flush succeeds, send returns Ok and the guard is dropped.
Flush(c) ==
    /\ pc[c] = "send_flush"
    /\ writer' = 0
    /\ wire_out' = <<>>
    /\ pc' = [pc EXCEPT ![c] = "waiting"]
    /\ UNCHANGED aux
    /\ UNCHANGED <<next_req_id, pending, kind, req_id, result, chan, pump_pc,
                   recv_buf>>

\* The registry after `self.send(..).await?` returned the error.
PendingAfterSendError(p, c) == p

\* A failed send that returns with the writer guard still held.
SendFailKeepsGuard(c) ==
    /\ pc[c] \in {"send_header", "send_payload", "send_flush"}
    /\ Cardinality({d \in Calls : result[d].tag = "Io"}) < MaxSendFailures
    /\ writer' = writer
    /\ wire_out' = <<>>
    /\ pending' = pending
    /\ result' = [result EXCEPT ![c] = ErrIo]
    /\ chan' = ReceiverDrop(chan, c)
    /\ pc' = [pc EXCEPT ![c] = "done"]
    /\ UNCHANGED aux
    /\ UNCHANGED <<next_req_id, kind, req_id, pump_pc, recv_buf>>

\* A write or the flush fails: the guard is dropped, `?` returns the I/O error
\* from the call, and the Receiver is dropped with it.
SendFail(c) ==
    /\ pc[c] \in {"send_header", "send_payload", "send_flush"}
    /\ Cardinality({d \in Calls : result[d].tag = "Io"}) < MaxSendFailures
    /\ writer' = 0
    /\ wire_out' = <<>>
    /\ pending' = PendingAfterSendError(pending, c)
    /\ result' = [result EXCEPT ![c] = ErrIo]
    /\ chan' = ReceiverDrop(chan, c)
    /\ pc' = [pc EXCEPT ![c] = "done"]
    /\ UNCHANGED aux
    /\ UNCHANGED <<next_req_id, kind, req_id, pump_pc, recv_buf>>

\* The `match` of account_values (lines 163-171) and of historical_data (206-214)
\* on a received message.
MatchResponse(k, msg) ==
    CASE msg.type = "Error" -> ErrTws(msg.data.code, msg.data.message)
      [] msg.type = "AccountValues" /\ k = "account_values" -> Ok(msg.data.values)
      [] msg.type = "HistoricalData" /\ k = "historical_data" -> Ok(msg.data.bars)
      [] OTHER -> ErrProtocol("Unexpected response type")

\* Whether the Receiver is ready: a value was sent, or the Sender was dropped.
ReceiverReady(c) == chan[c].val.some \/ ~chan[c].tx_alive

\* `timeout(.., rx).await` returns Ok(Ok(msg)), or Ok(Err(_)) when the Sender was
\* dropped unused.
Receive(c) ==
    /\ pc[c] = "waiting"
    /\ ReceiverReady(c)
    /\ result' = [result EXCEPT ![c] =
                     IF chan[c].val.some THEN MatchResponse(kind[c], chan[c].val.val)
                     ELSE ErrProtocol("Response channel closed")]
    /\ chan' = ReceiverDrop(chan, c)
    /\ pc' = [pc EXCEPT ![c] = "done"]
    /\ UNCHANGED aux
    /\ UNCHANGED <<next_req_id, pending, writer, wire_out, kind, req_id, pump_pc,
                   recv_buf>>

\* The registry after the call returned Err(Error::Timeout).
PendingAfterTimeout(p, c) == p

\* A wait on the Receiver alone, with no deadline.
DeadlineNever(c) == FALSE /\ UNCHANGED vars

\* `timeout(.., rx).await` returns Err(_): the deadline passed while the Receiver
\* was not ready (Timeout polls the Receiver first).
DeadlinePasses(c) ==
    /\ pc[c] = "waiting"
    /\ ~ReceiverReady(c)
    /\ pending' = PendingAfterTimeout(pending, c)
    /\ result' = [result EXCEPT ![c] = ErrTimeout]
    /\ chan' = ReceiverDrop(chan, c)
    /\ pc' = [pc EXCEPT ![c] = "done"]
    /\ UNCHANGED aux
    /\ UNCHANGED <<next_req_id, writer, wire_out, kind, req_id, pump_pc, recv_buf>>

\* The deadline of a call passes, for at most MaxTimeouts calls.
Timeout(c) ==
    /\ Cardinality({d \in Calls : result[d].tag = "Timeout"}) < MaxTimeouts
    /\ DeadlinePasses(c)

\* ----------------------------------------------------- the reader task

\* A reader task with `if let` in place of `while let`: one message is dispatched
\* and the task reads again.
PumpTurnOnce(buf) ==
    LET x == extract_message(buf)
    IN  IF x.some
        THEN \E o \in dispatch_message(x.val.msg, pending, chan) :
               /\ pending' = o.pending
               /\ chan' = o.chan
               /\ IF o.panic
                  THEN pump_pc' = "panicked" /\ recv_buf' = <<>>
                  ELSE recv_buf' = x.val.rest /\ pump_pc' = "read"
        ELSE /\ pump_pc' = "read"
             /\ recv_buf' = buf
             /\ UNCHANGED <<pending, chan>>

\* The reader task after recv_buf was given the value buf and the while loop is
\* about to test extract_message(&recv_buf): with a complete message in buf it is
\* dispatched (outcome o) and recv_buf becomes the rest, or the task panics and
\* its recv_buf is dropped; with none the loop ends and the task reads again. The
\* task is at "extract" when the rest holds another complete message, which the
\* next turn dispatches.
PumpTurn(buf) ==
    LET x == extract_message(buf)
    IN  IF x.some
        THEN \E o \in dispatch_message(x.val.msg, pending, chan) :
               /\ pending' = o.pending
               /\ chan' = o.chan
               /\ IF o.panic
                  THEN pump_pc' = "panicked" /\ recv_buf' = <<>>
                  ELSE /\ recv_buf' = x.val.rest
                       /\ pump_pc' = IF extract_message(x.val.rest).some
                                     THEN "extract" ELSE "read"
        ELSE /\ pump_pc' = "read"
             /\ recv_buf' = buf
             /\ UNCHANGED <<pending, chan>>

\* `reader.read(&mut buf)` returns Ok(n), n > 0: the bytes are appended to
\* recv_buf and the while loop is entered.
PumpRead(chunk) ==
    /\ pump_pc = "read"
    /\ PumpTurn(recv_buf \o chunk)
    /\ UNCHANGED aux
    /\ UNCHANGED <<next_req_id, writer, wire_out, pc, kind, req_id, result>>

\* The registry when the reader task ends.
PendingAtPumpExit(p) == p

\* The channels when the reader task ends.
ChanAtPumpExit(p, ch) == ch

\* `reader.read(&mut buf)` returns Ok(0) (why = "eof") or Err(_) (why =
\* "read_error"): both arms break, the loop is left and the task ends, its
\* recv_buf dropped.
PumpReadEnd(why) ==
    /\ pump_pc = "read"
    /\ why \in {"eof", "read_error"}
    /\ pump_pc' = "ended"
    /\ recv_buf' = <<>>
    /\ pending' = PendingAtPumpExit(pending)
    /\ chan' = ChanAtPumpExit(pending, chan)
    /\ UNCHANGED aux
    /\ UNCHANGED <<next_req_id, writer, wire_out, pc, kind, req_id, result>>

\* The next turn of `while let Some((msg, rest)) = extract_message(&recv_buf)`.
PumpDispatch ==
    /\ pump_pc = "extract"
    /\ PumpTurn(recv_buf)
    /\ UNCHANGED aux
    /\ UNCHANGED <<next_req_id, writer, wire_out, pc, kind, req_id, result>>

\* ------------------------------------------------------ the specification

\* The state Client::connect returns: an empty registry, the counter at 1000, the
\* reader task spawned with an empty recv_buf, no call made yet.
ClientInit ==
    /\ next_req_id = FirstReqId
    /\ pending = <<>>
    /\ writer = 0
    /\ wire_out = <<>>
    /\ pc = [c \in Calls |-> "idle"]
    /\ kind = [c \in Calls |-> "none"]
    /\ req_id = [c \in Calls |-> 0]
    /\ result = [c \in Calls |-> NoResult]
    /\ chan = [c \in Calls |-> NoChannel]
    /\ pump_pc = "read"
    /\ recv_buf = <<>>

\* The client, with the variables of the codecs at rest.
Init ==
    /\ ClientInit
    /\ stage = "client"
    /\ input = <<>>
    /\ bytes = <<>>
    /\ output = <<>>

Next ==
    \/ \E c \in Calls, k \in {"account_values", "historical_data"} : CallStart(c, k)
    \/ \E c \in Calls : Register(c)
    \/ \E c \in Calls : SendLock(c)
    \/ \E c \in Calls : WriteHeader(c)
    \/ \E c \in Calls : WritePayload(c)
    \/ \E c \in Calls : Flush(c)
    \/ \E c \in Calls : SendFail(c)
    \/ \E c \in Calls : Receive(c)
    \/ \E c \in Calls : Timeout(c)
    \/ \E chunk \in ReadChunks : PumpRead(chunk)
    \/ \E why \in {"eof", "read_error"} : PumpReadEnd(why)
    \/ PumpDispatch

Spec == Init /\ [][Next]_vars

\* ------------------------------------------- the frame codec on its own

\* The variables of the client.
clientVars == <<next_req_id, pending, writer, wire_out, pc, kind, req_id, result,
                chan, pump_pc, recv_buf>>

\* The longest of the payloads enumerated in full.
MaxPayloadLen == 3

\* The bytes the enumerated payloads are made of: NUL, a digit, a non-UTF-8 byte.
PayloadBytes == {NUL, Ch0 + 1, 255}

\* The sequences over S of length at most n.
SeqsUpTo(S, n) == UNION {[1..k -> S] : k \in 0..n}

\* Payloads whose length needs the second byte of the header.
LongPayloads == {[i \in 1..n |-> Ch0] : n \in {255, 256, 257, 1000}}

FramePayloads == SeqsUpTo(PayloadBytes, MaxPayloadLen) \cup LongPayloads

\* A payload is chosen; nothing is written yet.
FrameInit ==
    /\ ClientInit
    /\ stage = "payload"
    /\ input \in FramePayloads
    /\ bytes = <<>>
    /\ output = None

\* send_raw / send_message: the header, then the payload.
FrameEncode ==
    /\ stage = "payload"
    /\ bytes' = encode_frame(input)
    /\ stage' = "encoded"
    /\ UNCHANGED <<input, output>>
    /\ UNCHANGED clientVars

\* extract_message on the bytes written.
FrameExtract ==
    /\ stage = "encoded"
    /\ output' = extract_message(bytes)
    /\ stage' = "extracted"
    /\ UNCHANGED <<input, bytes>>
    /\ UNCHANGED clientVars

FrameNext == FrameEncode \/ FrameExtract

FrameSpec == FrameInit /\ [][FrameNext]_vars

\* ------------------------------- the reader task on a stream cut into reads

\* The most frames in a stream.
MaxFrames == 2

\* The payloads of the streams: an empty one, a message of one field, one of an
\* unknown kind, and the historical-data message with a negative bar count.
StreamPayloads ==
    {<<>>, Payload(<<Dec(1)>>), Payload(<<Dec(99), TxtGarbage>>),
     HistoricalFrame(Dec(FirstReqId), DisplayI32(-1), <<>>)}

\* The bytes of a stream of frames.
RECURSIVE StreamBytes(_)
StreamBytes(ps) ==
    IF ps = <<>> THEN <<>> ELSE encode_frame(Head(ps)) \o StreamBytes(Tail(ps))

\* Whether dispatch_message panics on the message.
DispatchPanics(msg) == DecodeMessage(msg).act = "panic"

\* The messages the while loop dispatches, in order, when recv_buf holds buf: the
\* loop runs until extract_message returns None or dispatch_message panics.
RECURSIVE LoopDispatches(_)
LoopDispatches(buf) ==
    LET x == extract_message(buf)
    IN  IF ~x.some THEN <<>>
        ELSE IF DispatchPanics(x.val.msg) THEN <<x.val.msg>>
        ELSE <<x.val.msg>> \o LoopDispatches(x.val.rest)

\* The client is connected, no call is made, and the gateway is about to send
\* the frames of `input`, of which `bytes` are still to be read.
ReaderInit ==
    /\ ClientInit
    /\ stage = "stream"
    /\ input \in SeqsUpTo(StreamPayloads, MaxFrames)
    /\ bytes = StreamBytes(input)
    /\ output = <<>>

\* One turn of the while loop on buf, and the message it dispatched recorded.
LoggedTurn(buf) ==
    /\ PumpTurn(buf)
    /\ output' = IF extract_message(buf).some
                 THEN Append(output, FirstMessage(buf)) ELSE output

\* `reader.read` returns the next n bytes of the stream.
ReaderRead(n) ==
    /\ pump_pc = "read"
    /\ n \in 1..Len(bytes)
    /\ LoggedTurn(recv_buf \o SubSeq(bytes, 1, n))
    /\ bytes' = SubSeq(bytes, n + 1, Len(bytes))
    /\ UNCHANGED <<stage, input>>
    /\ UNCHANGED <<next_req_id, writer, wire_out, pc, kind, req_id, result>>

\* The next turn of the while loop.
ReaderDispatch ==
    /\ pump_pc = "extract"
    /\ LoggedTurn(recv_buf)
    /\ UNCHANGED <<stage, input, bytes>>
    /\ UNCHANGED <<next_req_id, writer, wire_out, pc, kind, req_id, result>>

ReaderNext == (\E n \in 1..Len(bytes) : ReaderRead(n)) \/ ReaderDispatch

ReaderSpec == ReaderInit /\ [][ReaderNext]_vars

\* ------------------------------------------- the field codec on its own

\* The most fields in a payload.
MaxFields == 3

\* The values encoded: an absent value (the empty token), a number, a text.
FieldTexts == {<<>>, Dec(1), TxtGarbage}

\* A sequence of values is chosen; nothing is encoded yet.
FieldInit ==
    /\ ClientInit
    /\ stage = "fields"
    /\ input \in SeqsUpTo(FieldTexts, MaxFields)
    /\ bytes = <<>>
    /\ output = [it |-> FieldIteratorNew(<<>>), read |-> <<>>]

\* Every value is written with make_field, in order.
FieldEncode ==
    /\ stage = "fields"
    /\ bytes' = Payload(input)
    /\ stage' = "encoded"
    /\ UNCHANGED <<input, output>>
    /\ UNCHANGED clientVars

\* FieldIterator::new on the payload.
FieldOpen ==
    /\ stage = "encoded"
    /\ output' = [it |-> FieldIteratorNew(bytes), read |-> <<>>]
    /\ stage' = "decoding"
    /\ UNCHANGED <<input, bytes>>
    /\ UNCHANGED clientVars

\* next_string, until it returns None.
FieldNext ==
    /\ stage = "decoding"
    /\ LET r == next_string(output.it)
       IN  IF r.val.some
           THEN /\ output' = [it |-> r.it, read |-> Append(output.read, r.val.val)]
                /\ stage' = stage
           ELSE /\ output' = output
                /\ stage' = "decoded"
    /\ UNCHANGED <<input, bytes>>
    /\ UNCHANGED clientVars

FieldCodecNext == FieldEncode \/ FieldOpen \/ FieldNext

FieldSpec == FieldInit /\ [][FieldCodecNext]_vars

\* --------------------------------- one account_values call and its answer

\* The most account-value messages the gateway sends before the terminator.
MaxValues == 2

\* The AccountValue the AccountValue arm builds from the fields after the message
\* id (lines 257-270), and then drops.
AccountValueParse(fields) ==
    LET version  == next_i32(fields)
        key      == next_string(version.it)
        value    == next_string(key.it)
        currency == next_string(value.it)
        account  == next_string(currency.it)
    IN  [key |-> UnwrapOrEmpty(key.val), value |-> UnwrapOrEmpty(value.val),
         currency |-> UnwrapOrEmpty(currency.val),
         account |-> UnwrapOrEmpty(account.val)]

\* An account-value message: tag, version, key, value, currency, account.
AccountValueFrame(key, value) ==
    Payload(<<Dec(6), Dec(2), key, value, TxtUsd, TxtAccount>>)

AccountValueFrames ==
    {AccountValueFrame(TxtKey, TxtValue), AccountValueFrame(TxtKey, Dec(1)),
     AccountValueFrame(TxtGarbage, Dec(2))}

\* Whether the message is an account-value message.
IsAccountValue(msg) ==
    LET msg_id == next_u32(FieldIteratorNew(msg))
    IN  msg_id.val.some /\ from_u32(msg_id.val.val) = "AccountValue"

\* What the gateway answers to the subscription: account values, then the
\* account-download-end message.
AccountAnswers ==
    {vs \o <<AccountDownloadEndFrame>> : vs \in SeqsUpTo(AccountValueFrames, MaxValues)}

\* The client is connected; the gateway will answer with `input`, of which the
\* messages `bytes` are still to come; `output` lists the account values the
\* reader task was handed.
AccountInit ==
    /\ ClientInit
    /\ stage = "account"
    /\ input \in AccountAnswers
    /\ bytes = input
    /\ output = <<>>

\* The gateway's next message arrives, after the request was written, and the
\* reader task dispatches it.
GatewayDeliver ==
    /\ pc[1] \in {"waiting", "done"}
    /\ pump_pc = "read"
    /\ bytes # <<>>
    /\ PumpTurn(recv_buf \o encode_frame(Head(bytes)))
    /\ bytes' = Tail(bytes)
    /\ output' = IF IsAccountValue(Head(bytes))
                 THEN Append(output,
                             AccountValueParse(next_u32(FieldIteratorNew(Head(bytes))).it))
                 ELSE output
    /\ UNCHANGED <<stage, input>>
    /\ UNCHANGED <<next_req_id, writer, wire_out, pc, kind, req_id, result>>

AccountNext ==
    \/ CallStart(1, "account_values")
    \/ Register(1)
    \/ SendLock(1)
    \/ WriteHeader(1)
    \/ WritePayload(1)
    \/ Flush(1)
    \/ Receive(1)
    \/ GatewayDeliver

AccountSpec == AccountInit /\ [][AccountNext]_vars

\* ------------------------------------------------------- Client::connect

\* The client_id of the connection.
ClientId == 1

\* "API\0", the length of the version string, and "v100..176" (lines 64-67).
Greeting ==
    <<65, 80, 73, NUL>> \o ToBeBytes(9) \o <<118, 49, 48, 48, 46, 46, 49, 55, 54>>

\* The START_API payload (lines 89-95).
StartApiPayload ==
    make_field(Dec(StartApi)) \o make_field(Dec(2)) \o make_field(DisplayI32(ClientId))
    \o make_field(<<>>)

\* Texts: "176", a connection time, "-1", "+7".
TxtVersion == Dec(176)

TxtTime == <<50, 48, 50, 52>>

\* What follows the four skipped bytes in the replies read: the version and the
\* time; the version alone; the version after an empty field; a signed version;
\* text that is no number; a negative number; a number too large for a u32;
\* empty fields only; nothing; a byte that is not UTF-8; the largest u32.
ReplyBodies ==
    {Payload(<<TxtVersion, TxtTime>>), Payload(<<TxtVersion>>),
     Payload(<<<<>>, TxtVersion>>), Payload(<<<<ChPlus, Ch0 + 7>>>>),
     Payload(<<TxtGarbage>>), Payload(<<DisplayI32(-1)>>), Payload(<<TxtOversized>>),
     Payload(<<<<>>, <<>>>>), <<>>, <<255, NUL>>, Payload(<<U32MaxDigits>>)}

\* What the first read returns: nothing (end of stream), fewer than four bytes,
\* or four bytes and a body.
Replies == {<<>>, <<0, 0, 0>>} \cup {FrameHeader(b) \o b : b \in ReplyBodies}

\* What connect has so far: no result, Ok(client), or an error.
ConnectPending == [tag |-> "none", server_version |-> 0]

ConnectOk(v) == [tag |-> "Ok", server_version |-> v]

ConnectErr(tag) == [tag |-> tag, server_version |-> 0]

\* connect is called: nothing is written, no reader task exists, and the fields
\* of the client to be have the values connect will give them.
ConnectInit ==
    /\ next_req_id = FirstReqId
    /\ pending = <<>>
    /\ writer = 0
    /\ wire_out = <<>>
    /\ pc = [c \in Calls |-> "idle"]
    /\ kind = [c \in Calls |-> "none"]
    /\ req_id = [c \in Calls |-> 0]
    /\ result = [c \in Calls |-> NoResult]
    /\ chan = [c \in Calls |-> NoChannel]
    /\ pump_pc = "unspawned"
    /\ recv_buf = <<>>
    /\ stage = "connect"
    /\ input = <<>>
    /\ bytes = <<>>
    /\ output = ConnectPending

\* `?` on an I/O error, or a returned Protocol error: connect ends with the error.
ConnectFails(tag) ==
    /\ stage' = "failed"
    /\ output' = ConnectErr(tag)

\* TcpStream::connect(addr).await? (line 60).
TcpConnect(ok) ==
    /\ stage = "connect"
    /\ IF ok THEN stage' = "greeting" /\ output' = output ELSE ConnectFails("Io")
    /\ UNCHANGED <<input, bytes>>
    /\ UNCHANGED clientVars

\* writer.write_all(&handshake).await? (line 68).
WriteGreeting(ok) ==
    /\ stage = "greeting"
    /\ IF ok
       THEN /\ bytes' = Append(bytes, [what |-> "greeting", bytes |-> Greeting])
            /\ stage' = "read"
            /\ output' = output
       ELSE ConnectFails("Io") /\ bytes' = bytes
    /\ UNCHANGED input
    /\ UNCHANGED clientVars

\* reader.read(&mut buf).await? (line 72): the reply, or an I/O error.
ReadReply(ok, reply) ==
    /\ stage = "read"
    /\ IF ok
       THEN /\ input' = reply
            /\ stage' = "parse"
            /\ output' = output
       ELSE ConnectFails("Io") /\ input' = input
    /\ UNCHANGED bytes
    /\ UNCHANGED clientVars

\* The server version read from the reply (lines 73-86): None for a reply of
\* fewer than four bytes, for bytes after the fourth that are not UTF-8, and when
\* the first non-empty piece is missing or does not parse as a u32.
ServerVersion(reply) ==
    IF Len(reply) < 4 THEN None
    ELSE IF ~IsUtf8From(reply, 5) THEN None
    ELSE LET fields == SelectSeq(SplitNul(SubSeq(reply, 5, Len(reply)), 1, <<>>),
                                 NonEmpty)
         IN  IF fields = <<>> THEN None ELSE ParseU32(fields[1])

\* Lines 73-86: the reply is checked and the server version parsed.
ParseReply ==
    /\ stage = "parse"
    /\ LET v == ServerVersion(input)
       IN  IF v.some
           THEN /\ stage' = "start_header"
                /\ output' = [output EXCEPT !.server_version = v.val]
           ELSE ConnectFails("Protocol")
    /\ UNCHANGED <<input, bytes>>
    /\ UNCHANGED clientVars

\* send_raw of START_API (line 96): header, payload, flush, each of which may
\* fail with an I/O error.
WriteStartApi(ok) ==
    /\ stage \in {"start_header", "start_payload", "start_flush"}
    /\ IF ok
       THEN /\ bytes' = CASE stage = "start_header" ->
                             Append(bytes, [what  |-> "start_header",
                                            bytes |-> FrameHeader(StartApiPayload)])
                          [] stage = "start_payload" ->
                             Append(bytes, [what  |-> "start_payload",
                                            bytes |-> StartApiPayload])
                          [] OTHER -> bytes
            /\ stage' = CASE stage = "start_header" -> "start_payload"
                          [] stage = "start_payload" -> "start_flush"
                          [] OTHER -> "sleep"
            /\ output' = output
       ELSE ConnectFails("Io") /\ bytes' = bytes
    /\ UNCHANGED input
    /\ UNCHANGED clientVars

\* A connect that returns the client once the reply is parsed, before START_API
\* is written.
ConnectReturnBeforeStartApi ==
    /\ stage = "start_header"
    /\ pump_pc' = "read"
    /\ stage' = "ready"
    /\ output' = ConnectOk(output.server_version)
    /\ UNCHANGED <<input, bytes>>
    /\ UNCHANGED <<next_req_id, pending, writer, wire_out, pc, kind, req_id, result,
                   chan, recv_buf>>

\* Lines 99-132: after the sleep the reader task is spawned and Ok(client)
\* returned.
ConnectReturn ==
    /\ stage = "sleep"
    /\ pump_pc' = "read"
    /\ stage' = "ready"
    /\ output' = ConnectOk(output.server_version)
    /\ UNCHANGED <<input, bytes>>
    /\ UNCHANGED <<next_req_id, pending, writer, wire_out, pc, kind, req_id, result,
                   chan, recv_buf>>

\* A method of the client is called: there is a client only once connect has
\* returned it.
ClientStep ==
    /\ stage = "ready"
    /\ \/ \E k \in {"account_values", "historical_data"} : CallStart(1, k)
       \/ Register(1)
       \/ SendLock(1)
       \/ WriteHeader(1)
       \/ WritePayload(1)
       \/ Flush(1)

ConnectNext ==
    \/ \E ok \in BOOLEAN : TcpConnect(ok)
    \/ \E ok \in BOOLEAN : WriteGreeting(ok)
    \/ \E ok \in BOOLEAN, reply \in Replies : ReadReply(ok, reply)
    \/ ParseReply
    \/ \E ok \in BOOLEAN : WriteStartApi(ok)
    \/ ConnectReturn
    \/ ClientStep

ConnectSpec == ConnectInit /\ [][ConnectNext]_vars

\* ------------------------------------- the handshake reply in the stream

\* The gateway's reply to the greeting: four bytes, the version and the time.
HandshakeReply ==
    FrameHeader(Payload(<<TxtVersion, TxtTime>>)) \o Payload(<<TxtVersion, TxtTime>>)

\* The frame the gateway sends after its reply: the next valid id.
NextValidIdFrame == Payload(<<Dec(9), Dec(1), Dec(1)>>)

\* The gateway sends its reply and then the frames of output.sent; `bytes` are
\* the bytes of that stream still to be read, and connect is about to read.
HandshakeInit ==
    /\ next_req_id = FirstReqId
    /\ pending = <<>>
    /\ writer = 0
    /\ wire_out = <<>>
    /\ pc = [c \in Calls |-> "idle"]
    /\ kind = [c \in Calls |-> "none"]
    /\ req_id = [c \in Calls |-> 0]
    /\ result = [c \in Calls |-> NoResult]
    /\ chan = [c \in Calls |-> NoChannel]
    /\ pump_pc = "unspawned"
    /\ recv_buf = <<>>
    /\ stage = "reply_read"
    /\ input = <<>>
    /\ \E sent \in SeqsUpTo({NextValidIdFrame}, MaxFrames) :
          /\ bytes = HandshakeReply \o StreamBytes(sent)
          /\ output = [sent |-> sent, server_version |-> 0, dispatched |-> <<>>]

\* `let n = reader.read(&mut buf).await?` (line 72): one read, which returns the
\* next n bytes of the stream, as many as have arrived.
HandshakeRead(n) ==
    /\ stage = "reply_read"
    /\ n \in 1..Len(bytes)
    /\ input' = SubSeq(bytes, 1, n)
    /\ bytes' = SubSeq(bytes, n + 1, Len(bytes))
    /\ stage' = "reply_parse"
    /\ UNCHANGED output
    /\ UNCHANGED clientVars

\* Lines 73-132: the version is parsed from what the read returned; on success
\* START_API is sent, the reader task spawned with an empty recv_buf and the
\* client returned.
HandshakeParse ==
    /\ stage = "reply_parse"
    /\ LET v == ServerVersion(input)
       IN  IF v.some
           THEN /\ stage' = "reply_ready"
                /\ output' = [output EXCEPT !.server_version = v.val]
                /\ pump_pc' = "read"
           ELSE /\ stage' = "reply_failed"
                /\ UNCHANGED <<output, pump_pc>>
    /\ UNCHANGED <<input, bytes>>
    /\ UNCHANGED <<next_req_id, pending, writer, wire_out, pc, kind, req_id, result,
                   chan, recv_buf>>

\* One turn of the reader task's while loop on buf, the dispatched message
\* recorded.
HandshakeTurn(buf) ==
    /\ PumpTurn(buf)
    /\ output' = IF extract_message(buf).some
                 THEN [output EXCEPT !.dispatched = Append(@, FirstMessage(buf))]
                 ELSE output

\* The reader task's read returns the next n bytes of the stream.
HandshakePumpRead(n) ==
    /\ stage = "reply_ready"
    /\ pump_pc = "read"
    /\ n \in 1..Len(bytes)
    /\ HandshakeTurn(recv_buf \o SubSeq(bytes, 1, n))
    /\ bytes' = SubSeq(bytes, n + 1, Len(bytes))
    /\ UNCHANGED <<stage, input>>
    /\ UNCHANGED <<next_req_id, writer, wire_out, pc, kind, req_id, result>>

\* The next turn of the reader task's while loop.
HandshakePumpDispatch ==
    /\ stage = "reply_ready"
    /\ pump_pc = "extract"
    /\ HandshakeTurn(recv_buf)
    /\ UNCHANGED <<stage, input, bytes>>
    /\ UNCHANGED <<next_req_id, writer, wire_out, pc, kind, req_id, result>>

HandshakeNext ==
    \/ \E n \in 1..Len(bytes) : HandshakeRead(n)
    \/ HandshakeParse
    \/ \E n \in 1..Len(bytes) : HandshakePumpRead(n)
    \/ HandshakePumpDispatch

HandshakeSpec == HandshakeInit /\ [][HandshakeNext]_vars

\* ------------------------------------------------- the calls return

\* What the reader task reads in the runs that are followed to their end.
LiveChunks ==
    {encode_frame(f) : f \in ResponsesFor(FirstReqId)
                            \cup {AccountDownloadEndFrame,
                                  HistoricalFrame(Dec(FirstReqId), DisplayI32(-1), <<>>)}}

LiveInit ==
    /\ ClientInit
    /\ stage = "live"
    /\ input = <<>>
    /\ bytes = <<>>
    /\ output = <<>>

\* The next step of call c once it has allocated its id: every await of the call
\* (the two locks, the writes and the flush, the wait on the Receiver under its
\* deadline) returns.
CallStep(c) ==
    \/ Register(c)
    \/ SendLock(c)
    \/ WriteHeader(c)
    \/ WritePayload(c)
    \/ Flush(c)
    \/ SendFail(c)
    \/ Receive(c)
    \/ DeadlinePasses(c)

LiveNext ==
    \/ \E c \in Calls, k \in {"account_values", "historical_data"} : CallStart(c, k)
    \/ \E c \in Calls : CallStep(c)
    \/ \E chunk \in LiveChunks : PumpRead(chunk)
    \/ \E why \in {"eof", "read_error"} : PumpReadEnd(why)

\* The calls are scheduled and their awaits return; nothing is assumed of the
\* gateway or of the reader task.
LiveSpec == LiveInit /\ [][LiveNext]_vars /\ \A c \in Calls : WF_vars(CallStep(c))

\* ------------------------------------------------- extraction of a frame

\* The longest of the buffers enumerated in full.
MaxBufferLen == 5

\* The buffers extract_message is applied to: every buffer of the bytes 0, 1 and
\* 255 up to MaxBufferLen; a frame of two bytes and what follows it; and the
\* buffers of test_extract_message_incomplete.
ExtractBuffers ==
    SeqsUpTo({0, 1, 255}, MaxBufferLen)
    \cup {<<0, 0, 0, 2>> \o t : t \in SeqsUpTo({Ch0 + 1, 255}, 4)}
    \cup {<<0, 0>>, <<0, 0, 0, 10, 1, 2, 3, 4, 5>>}

ExtractInit ==
    /\ ClientInit
    /\ stage = "buffer"
    /\ input \in ExtractBuffers
    /\ bytes = <<>>
    /\ output = None

\* extract_message(&buf).
ExtractApply ==
    /\ stage = "buffer"
    /\ output' = extract_message(input)
    /\ stage' = "applied"
    /\ UNCHANGED <<input, bytes>>
    /\ UNCHANGED clientVars

ExtractNext == ExtractApply

ExtractSpec == ExtractInit /\ [][ExtractNext]_vars

\* ------------------------------------------- messages for no request

\* The ids of the incoming messages dispatch_message has no arm for, and of the
\* account value, whose arm resolves nothing: AccountValue, PortfolioValue,
\* NextValidId, ManagedAccounts, HistoricalDataUpdate, HistoricalDataEnd.
UnroutedKinds == {6, 7, 9, 15, 90, 108}

\* A message of such a kind whose fields hold the first request id where the
\* historical-data and the error message hold theirs.
UnroutedFrame(k) ==
    Payload(<<Dec(k), Dec(FirstReqId), Dec(FirstReqId), Dec(0), TxtMessage>>)

UnroutedFrames == {UnroutedFrame(k) : k \in UnroutedKinds}

\* The client is connected; the gateway will send the messages of `input`, of
\* which `bytes` are still to come.
UnroutedInit ==
    /\ ClientInit
    /\ stage = "unrouted"
    /\ input \in SeqsUpTo(UnroutedFrames, MaxFrames)
    /\ bytes = input
    /\ output = <<>>

UnroutedNext ==
    \/ \E k \in {"account_values", "historical_data"} : CallStart(1, k)
    \/ Register(1)
    \/ SendLock(1)
    \/ WriteHeader(1)
    \/ WritePayload(1)
    \/ Flush(1)
    \/ Timeout(1)
    \/ GatewayDeliver

UnroutedSpec == UnroutedInit /\ [][UnroutedNext]_vars

\* ---------------------------------------------------- the field cursor

\* The largest n of skip(n), and the largest j of skip(usize::MAX - j).
MaxSkip == 2

\* The payload of test_field_iterator: "17", "123", "45.5", "hello".
TestFieldsPayload ==
    Payload(<<<<49, 55>>, <<49, 50, 51>>, <<52, 53, 46, 53>>,
              <<104, 101, 108, 108, 111>>>>)

\* The payloads a cursor is opened on.
CursorPayloads ==
    {Payload(fs) : fs \in SeqsUpTo(FieldTexts, MaxFields)} \cup {TestFieldsPayload}

\* What the last call on the cursor was and returned: the position it was made
\* at, and the Option, text, number, f64, bool or slice it returned.
NoCall ==
    [op |-> "none", from |-> 0, some |-> FALSE, text |-> <<>>, num |-> 0,
     f |-> F64Zero, flag |-> FALSE, rest |-> <<>>]

CalledAt(it, op) == [NoCall EXCEPT !.op = op, !.from = it.position]

\* FieldIterator::new on a payload.
CursorInit ==
    /\ ClientInit
    /\ stage = "cursor"
    /\ input \in CursorPayloads
    /\ bytes = <<>>
    /\ output = [it |-> FieldIteratorNew(input), last |-> NoCall]

\* One call of a getter on the cursor.
CursorGet(op) ==
    /\ stage = "cursor"
    /\ LET it == output.it
       IN  CASE op = "next_string" ->
                  LET r == next_string(it)
                  IN  output' = [it |-> r.it,
                                 last |-> [CalledAt(it, op) EXCEPT
                                              !.some = r.val.some,
                                              !.text = UnwrapOrEmpty(r.val)]]
             [] op = "next" ->
                  LET r == next_u32(it)
                  IN  output' = [it |-> r.it,
                                 last |-> [CalledAt(it, op) EXCEPT
                                              !.some = r.val.some,
                                              !.num = IF r.val.some THEN r.val.val ELSE 0]]
             [] op = "next_i32" ->
                  LET r == next_i32(it)
                  IN  output' = [it |-> r.it,
                                 last |-> [CalledAt(it, op) EXCEPT !.num = r.val]]
             [] op = "next_f64" ->
                  LET r == next_f64(it)
                  IN  output' = [it |-> r.it,
                                 last |-> [CalledAt(it, op) EXCEPT !.f = r.val]]
             [] op = "next_bool" ->
                  LET r == next_bool(it)
                  IN  output' = [it |-> r.it,
                                 last |-> [CalledAt(it, op) EXCEPT !.flag = r.val]]
    /\ UNCHANGED <<stage, input, bytes>>
    /\ UNCHANGED clientVars

\* skip(n) for a small n.
CursorSkip(n) ==
    /\ stage = "cursor"
    /\ output' = [it |-> skip(output.it, n),
                  last |-> [CalledAt(output.it, "skip") EXCEPT !.num = n]]
    /\ UNCHANGED <<stage, input, bytes>>
    /\ UNCHANGED clientVars

\* skip(usize::MAX - j): where the sum overflows, a build with overflow checks
\* panics and a build without them wraps.
CursorSkipNearMax(j, checked) ==
    /\ stage = "cursor"
    /\ IF SkipOverflows(output.it, j) /\ checked
       THEN /\ stage' = "overflow_panic"
            /\ output' = output
       ELSE /\ stage' = stage
            /\ output' = [it |-> skip_near_max(output.it, j),
                          last |-> [CalledAt(output.it, "skip") EXCEPT !.num = -1 - j]]
    /\ UNCHANGED <<input, bytes>>
    /\ UNCHANGED clientVars

\* remaining(): the slice, or the panic of an index out of range.
CursorRemaining ==
    /\ stage = "cursor"
    /\ IF RemainingOutOfRange(output.it)
       THEN /\ stage' = "index_panic"
            /\ output' = output
       ELSE /\ stage' = stage
            /\ output' = [output EXCEPT
                             !.last = [CalledAt(output.it, "remaining") EXCEPT
                                          !.rest = remaining(output.it)]]
    /\ UNCHANGED <<input, bytes>>
    /\ UNCHANGED clientVars

CursorNext ==
    \/ \E op \in {"next_string", "next", "next_i32", "next_f64", "next_bool"} :
          CursorGet(op)
    \/ \E n \in 0..MaxSkip : CursorSkip(n)
    \/ \E j \in 0..MaxSkip, checked \in BOOLEAN : CursorSkipNearMax(j, checked)
    \/ CursorRemaining

CursorSpec == CursorInit /\ [][CursorNext]_vars

\* ------------------------------------------------ the request-id counter

\* AtomicI32::fetch_add(n): the counter n steps further, wrapping from I32Max to
\* I32Min. No intermediate value leaves the range of an i32.
WrappingAdd(a, n) ==
    IF a <= I32Max - n THEN a + n
    ELSE (a - I32Max - 1) + (n - I32Max - 1)

\* Whether id k is among the n ids the counter hands out from a on.
HandsOut(a, n, k) ==
    LET last == WrappingAdd(a, n - 1)
    IN  IF a <= last THEN a <= k /\ k <= last ELSE k >= a \/ k <= last

\* How many calls a run of calls, each made and answered before the next, holds.
RunLengths == {1, I32Max}

CounterInit ==
    /\ ClientInit
    /\ stage = "counter"
    /\ input = <<>>
    /\ bytes = <<>>
    /\ output = <<>>

\* n calls are made one after the other, each of them allocating its id (line
\* 144), registered, sent, answered by the gateway and returned before the next:
\* the counter is n further and each entry was inserted and removed again. None
\* of the ids is in the registry already.
CallsReturned(n) ==
    /\ Len(input) < MaxRuns
    /\ pump_pc = "read"
    /\ writer = 0
    /\ \A k \in DOMAIN pending : ~HandsOut(next_req_id, n, k)
    /\ next_req_id' = WrappingAdd(next_req_id, n)
    /\ input' = Append(input, n)
    /\ UNCHANGED <<stage, bytes, output>>
    /\ UNCHANGED <<pending, writer, wire_out, pc, kind, req_id, result, chan, pump_pc,
                   recv_buf>>

CounterNext ==
    \/ \E n \in RunLengths : CallsReturned(n)
    \/ \E c \in Calls, k \in {"account_values", "historical_data"} : CallStart(c, k)
    \/ \E c \in Calls : Register(c)
    \/ \E c \in Calls : SendLock(c)
    \/ \E c \in Calls : WriteHeader(c)
    \/ \E c \in Calls : WritePayload(c)
    \/ \E c \in Calls : Flush(c)
    \/ \E c \in Calls : Receive(c)
    \/ \E c \in Calls : Timeout(c)

CounterSpec == CounterInit /\ [][CounterNext]_vars

\* ------------------------------------------- the guard of the registry

\* Who holds the Mutex of `pending`: nobody, the reader task, or a call.
NoHolder == 0

PumpHolder == -1

\* The guard, and the decision of the message the reader task is dispatching.
GuardFree == [holder |-> NoHolder, decision |-> Ignore]

\* What the reader task reads in the runs that follow the guard: the responses to
\* the first request, the account-download-end message, a message that is
\* ignored, a bar count that panics, and two responses in one read.
GuardChunks ==
    {encode_frame(f) : f \in ResponsesFor(FirstReqId)
                            \cup {AccountDownloadEndFrame, Payload(<<Dec(99)>>),
                                  HistoricalFrame(Dec(FirstReqId), DisplayI32(-1), <<>>)}}
    \cup {encode_frame(ErrorFrame(Dec(FirstReqId + 1), Dec(200)))
          \o encode_frame(HistoricalFrame(Dec(FirstReqId), Dec(1), Bar1Fields))}

GuardInit ==
    /\ ClientInit
    /\ stage = "guard"
    /\ input = <<>>
    /\ bytes = <<>>
    /\ output = GuardFree

\* `let mut pending = self.pending.lock().await;` of a call (lines 148, 194).
LockPending(c) ==
    /\ pc[c] = "allocated"
    /\ output.holder = NoHolder
    /\ output' = [output EXCEPT !.holder = c]
    /\ pc' = [pc EXCEPT ![c] = "insert"]
    /\ UNCHANGED <<stage, input, bytes>>
    /\ UNCHANGED <<next_req_id, pending, writer, wire_out, kind, req_id, result, chan,
                   pump_pc, recv_buf>>

\* A call that keeps the guard after the insert.
HolderAfterInsertKept(c) == c

\* The holder once the block of lines 147-150 is left: the guard is dropped.
HolderAfterInsert(c) == NoHolder

\* `pending.insert(req_id, tx); }` (lines 149-150).
InsertEntry(c) ==
    /\ pc[c] = "insert"
    /\ output.holder = c
    /\ pending' = InsertPending(pending, req_id[c], c)
    /\ chan' = IF req_id[c] \in DOMAIN pending /\ pending[req_id[c]] # c
               THEN SenderDrop(chan, pending[req_id[c]]) ELSE chan
    /\ output' = [output EXCEPT !.holder = HolderAfterInsert(c)]
    /\ pc' = [pc EXCEPT ![c] = "registered"]
    /\ UNCHANGED <<stage, input, bytes>>
    /\ UNCHANGED <<next_req_id, writer, wire_out, kind, req_id, result, pump_pc,
                   recv_buf>>

\* `reader.read(&mut buf)` returns Ok(n): recv_buf.extend_from_slice (line 115).
PumpReadBytes(chunk) ==
    /\ pump_pc = "read"
    /\ recv_buf' = recv_buf \o chunk
    /\ pump_pc' = "extract"
    /\ UNCHANGED aux
    /\ UNCHANGED <<next_req_id, pending, writer, wire_out, pc, kind, req_id, result,
                   chan>>

\* The test of the while loop (line 116) and dispatch_message up to the lock: no
\* message, so the task reads again; a message that panics; a message that is
\* ignored, so that recv_buf becomes the rest (line 118); or a message whose arm
\* goes on to lock the registry.
PumpDecode ==
    /\ pump_pc = "extract"
    /\ LET x == extract_message(recv_buf)
       IN  IF ~x.some
           THEN pump_pc' = "read" /\ UNCHANGED <<recv_buf, output>>
           ELSE LET d == DecodeMessage(x.val.msg)
                IN  CASE d.act = "panic" ->
                           pump_pc' = "panicked" /\ recv_buf' = <<>> /\ output' = output
                      [] d.act = "ignore" ->
                           /\ pump_pc' = "extract"
                           /\ recv_buf' = x.val.rest
                           /\ output' = output
                      [] OTHER ->
                           /\ pump_pc' = "lock"
                           /\ recv_buf' = recv_buf
                           /\ output' = [output EXCEPT !.decision = d]
    /\ UNCHANGED <<stage, input, bytes>>
    /\ UNCHANGED <<next_req_id, pending, writer, wire_out, pc, kind, req_id, result,
                   chan>>

\* `let mut pending = pending.lock().await;` of the reader task (lines 274, 296,
\* 312).
PumpLockPending ==
    /\ pump_pc = "lock"
    /\ output.holder = NoHolder
    /\ output' = [output EXCEPT !.holder = PumpHolder]
    /\ pump_pc' = "locked"
    /\ UNCHANGED <<stage, input, bytes>>
    /\ UNCHANGED <<next_req_id, pending, writer, wire_out, pc, kind, req_id, result,
                   chan, recv_buf>>

\* A reader task that resolves and leaves the message in recv_buf.
PumpResolveKeepsMessage ==
    /\ pump_pc = "locked"
    /\ \E o \in Resolve(output.decision, pending, chan) :
          /\ pending' = o.pending
          /\ chan' = o.chan
    /\ output' = GuardFree
    /\ recv_buf' = recv_buf
    /\ pump_pc' = "extract"
    /\ UNCHANGED <<stage, input, bytes>>
    /\ UNCHANGED <<next_req_id, writer, wire_out, pc, kind, req_id, result>>

\* The remove and the send under the guard, the end of the arm, where the guard
\* is dropped, and `recv_buf = rest` (line 118).
PumpResolve ==
    /\ pump_pc = "locked"
    /\ \E o \in Resolve(output.decision, pending, chan) :
          /\ pending' = o.pending
          /\ chan' = o.chan
    /\ output' = GuardFree
    /\ recv_buf' = extract_message(recv_buf).val.rest
    /\ pump_pc' = "extract"
    /\ UNCHANGED <<stage, input, bytes>>
    /\ UNCHANGED <<next_req_id, writer, wire_out, pc, kind, req_id, result>>

GuardNext ==
    \/ \E c \in Calls, k \in {"account_values", "historical_data"} : CallStart(c, k)
    \/ \E c \in Calls : LockPending(c)
    \/ \E c \in Calls : InsertEntry(c)
    \/ \E c \in Calls : SendLock(c)
    \/ \E c \in Calls : WriteHeader(c)
    \/ \E c \in Calls : WritePayload(c)
    \/ \E c \in Calls : Flush(c)
    \/ \E c \in Calls : SendFail(c)
    \/ \E c \in Calls : Receive(c)
    \/ \E c \in Calls : Timeout(c)
    \/ \E chunk \in GuardChunks : PumpReadBytes(chunk)
    \/ PumpDecode
    \/ PumpLockPending
    \/ PumpResolve
    \/ \E why \in {"eof", "read_error"} : PumpReadEnd(why)

GuardSpec == GuardInit /\ [][GuardNext]_vars

\* ------------------------------------------------------------ properties

\* The first message of every read of the model, computed once.
FirstOfChunk == [chunk \in ReadChunks |-> FirstMessage(chunk)]

\* The step is the reader task dispatching the message f: f is the first message
\* of recv_buf after a read, or of recv_buf at the next turn of the while loop.
Dispatches(f) ==
    /\ UNCHANGED <<next_req_id, writer, wire_out, pc, kind, req_id, result>>
    /\ \/ /\ pump_pc = "read"
          /\ \E chunk \in ReadChunks :
               /\ IF recv_buf = <<>> THEN FirstOfChunk[chunk] = f
                  ELSE /\ extract_message(recv_buf \o chunk).some
                       /\ FirstMessage(recv_buf \o chunk) = f
               /\ PumpRead(chunk)
       \/ /\ pump_pc = "extract"
          /\ FirstMessage(recv_buf) = f
          /\ PumpDispatch

\* The waiter of call c is completed by the step: its channel receives a value.
Completes(c) == ~chan[c].val.some /\ chan'[c].val.some

\* The entry of id k and the channel of the call it belongs to are as before.
EntryUntouched(k) ==
    /\ k \in DOMAIN pending'
    /\ pending'[k] = pending[k]
    /\ chan'[pending[k]] = chan[pending[k]]

\* The calls that allocated an id and have not returned.
InProgress == {c \in Calls : pc[c] \notin {"idle", "done"}}

\* C1: when the read of the reader task returns end-of-stream or an error, every
\* entry of the registry is removed and its waiting caller completed, and the
\* registry is empty when the task has ended.
C1_DrainOnExit ==
    [][(pump_pc = "read" /\ pump_pc' = "ended") =>
          /\ DOMAIN pending' = {}
          /\ \A k \in DOMAIN pending :
                chan[pending[k]].rx_alive => chan'[pending[k]].val.some]_vars

\* C2: a historical-data message carrying the id X of a registered entry whose
\* caller waits removes that entry and completes that caller, and leaves every
\* other entry and every other waiter as they were.
C2_RoutedToIssuer ==
    [][\A X \in AnsweredIds : \A f \in HistoricalFor(X) :
          (X \in DOMAIN pending /\ chan[pending[X]].rx_alive /\ Dispatches(f)) =>
              /\ X \notin DOMAIN pending'
              /\ Completes(pending[X])
              /\ \A k \in DOMAIN pending \ {X} : EntryUntouched(k)]_vars

\* C3: the account-download-end message never removes or completes an entry that
\* a historical_data call registered.
C3_TerminatorOnlyAccount ==
    [][Dispatches(AccountDownloadEndFrame) =>
          \A k \in DOMAIN pending :
              kind[pending[k]] = "historical_data" => EntryUntouched(k)]_vars

\* C4: a call that returned the I/O error of a failed write has no entry left in
\* the registry.
C4_SendFailureCancels ==
    \A c \in Calls : result[c].tag = "Io" => req_id[c] \notin DOMAIN pending

\* C5: a call that returned Timeout has no entry left in the registry.
C5_TimeoutCancels ==
    \A c \in Calls : result[c].tag = "Timeout" => req_id[c] \notin DOMAIN pending

\* C6: a historical-data or error message for an id that is not in the registry
\* (a duplicate of an answered id, or an unknown one) changes nothing in the
\* registry, completes no waiter and does not stop the reader task; a message for
\* a registered id sends to its waiter at most once.
C6_AtMostOnce ==
    [][/\ \A X \in AnsweredIds : \A f \in HistoricalFor(X) \cup ErrorFor(X) :
             (X \notin DOMAIN pending /\ Dispatches(f)) =>
                 /\ pending' = pending
                 /\ chan' = chan
                 /\ pump_pc' \in {"read", "extract"}
       /\ \A c \in Calls : chan'[c].sends <= 1]_vars

C9_PumpSurvivesFields == pump_pc # "panicked"

\* The bytes of a sequence of writes, in order.
RECURSIVE Bytes(_)
Bytes(w) == IF w = <<>> THEN <<>> ELSE Head(w).bytes \o Bytes(Tail(w))

\* C10: whatever is on the transport of the send in progress was written by the
\* one call that holds the writer guard, the header before the payload, and makes
\* up that call's frame alone; no other call is inside send_raw.
C10_FramesNotInterleaved ==
    /\ \A i \in 1..Len(wire_out) : wire_out[i].by = writer
    /\ \A c \in Calls :
          pc[c] \in {"send_header", "send_payload", "send_flush"} => writer = c
    /\ \A c \in Calls :
          /\ pc[c] = "send_header" => wire_out = <<>>
          /\ pc[c] = "send_payload" => Bytes(wire_out) = FrameHeader(RequestPayload(c))
          /\ pc[c] = "send_flush" => Bytes(wire_out) = encode_frame(RequestPayload(c))

\* C10's case: one call has written its header and not yet its payload while
\* another call is registered and about to send.
C10_Witness ==
    \E c, d \in Calls :
        /\ pc[c] = "send_payload"
        /\ Len(wire_out) = 1
        /\ pc[d] = "registered"

\* The call that was given the id X, if one was.
CallsOf(X) == {c \in Calls : pc[c] # "idle" /\ req_id[c] = X}

\* C11: of the timeout of the call with id X and the reader task's resolution of
\* X exactly one wins: a caller that holds the response does not time out, a
\* caller that timed out is sent nothing, and a response to X dispatched after the
\* timeout is a no-op that changes neither the registry nor a channel; no channel
\* is sent to twice and the reader task does not panic on the response.
C11_TimeoutResolveRace ==
    [][/\ \A c \in Calls :
             /\ (pc[c] = "waiting" /\ chan[c].val.some) => result'[c].tag # "Timeout"
             /\ result'[c].tag = "Timeout" => chan'[c].sends = 0
             /\ chan'[c].sends <= 1
       /\ \A X \in AnsweredIds : \A f \in ResponsesFor(X) :
             ((\E c \in CallsOf(X) : result[c].tag = "Timeout") /\ Dispatches(f)) =>
                 /\ pending' = pending
                 /\ chan' = chan
                 /\ pump_pc' # "panicked"]_vars

\* C12: extracting from the header and the bytes of a payload P yields P and an
\* empty rest.
C12_FrameRoundTrip ==
    stage = "extracted" => output = Some([msg |-> input, rest |-> <<>>])

\* C12's case: a frame was extracted from the encoding of a payload longer than
\* 255 bytes, whose length fills two bytes of the header.
C12_Witness ==
    /\ stage = "extracted"
    /\ output.some
    /\ Len(input) = 256

\* The bytes of the stream that the reads so far returned.
Delivered == SubSeq(StreamBytes(input), 1, Len(StreamBytes(input)) - Len(bytes))

\* Whether p is a prefix of q.
IsPrefix(p, q) == Len(p) <= Len(q) /\ p = SubSeq(q, 1, Len(p))

\* C13: however the stream is cut into reads, the messages dispatched so far are
\* those a single read of the bytes delivered so far dispatches (all of them once
\* the while loop has ended, a prefix while it runs), so a message is dispatched
\* only when all its bytes have arrived and none is lost or dispatched twice; a
\* stream read to its end without a panic has dispatched every payload in order.
C13_PartialReadReassembly ==
    stage = "stream" =>
        /\ IsPrefix(output, LoopDispatches(Delivered))
        /\ pump_pc # "extract" => output = LoopDispatches(Delivered)
        /\ (bytes = <<>> /\ pump_pc = "read") => output = input

\* C13's case: a read ended inside the second frame of a stream: the first
\* payload was dispatched, recv_buf holds the part of the second that arrived and
\* the rest is still to be read.
C13_Witness ==
    /\ stage = "stream"
    /\ Len(input) = 2
    /\ input[1] # input[2]
    /\ pump_pc = "read"
    /\ output = <<input[1]>>
    /\ Len(recv_buf) > 4
    /\ bytes # <<>>

\* C14: the fields read back from the encoding of a sequence of values are those
\* values, as many and at the same positions, an empty value included.
C14_FieldRoundTrip ==
    stage = "decoded" => output.read = input

\* C15: an account_values call that returned Ok returned the account values of
\* the account-value messages the reader task was handed for it before the
\* account-download-end message.
C15_AccountValuesReturned ==
    (stage = "account" /\ result[1].tag = "Ok") => result[1].data.val = output

\* The f64 mant / 10^scale.
F64(mant, scale) == [neg |-> FALSE, mant |-> mant, scale |-> scale]

\* The bars whose fields are Bar1Fields and Bar2Fields (the volume of the second
\* is no number and reads as 0.0).
Bar1 ==
    [date |-> TxtDate1, open |-> F64(15, 1), high |-> F64(2, 0), low |-> F64(1, 0),
     close |-> F64(15, 1), volume |-> F64(100, 0), wap |-> F64(15, 1), bar_count |-> 7]

Bar2 ==
    [date |-> TxtDate2, open |-> F64(225, 2), high |-> F64(3, 0), low |-> F64(2, 0),
     close |-> F64(25, 1), volume |-> F64Zero, wap |-> F64(25, 1), bar_count |-> 9]

\* The historical-data messages for X that declare N bars and carry N bars, each
\* with its start text and the bars it carries: one bar, and for the first id two
\* bars, and one bar after an empty start field.
FullHistoricalFor(X) ==
    {[frame |-> HistoricalFrame(Dec(X), Dec(1), Bar1Fields), start |-> TxtStart,
      bars |-> <<Bar1>>]}
    \cup (IF X = FirstReqId
          THEN {[frame |-> HistoricalFrame(Dec(X), Dec(2), Bar1Fields \o Bar2Fields),
                 start |-> TxtStart, bars |-> <<Bar1, Bar2>>],
                [frame |-> EmptyStartFrame(X), start |-> <<>>, bars |-> <<Bar1>>]}
          ELSE {})

\* C16: a historical-data message for the id X of a waiting historical_data call
\* that declares and carries N bars removes X from the registry and hands the
\* call those N bars in order; a call handed bars returns Ok with exactly them,
\* never Timeout, and its id is not in the registry when it has returned.
C16_BarsReturnedInOrder ==
    [][/\ \A X \in AnsweredIds : \A w \in FullHistoricalFor(X) :
             (/\ X \in DOMAIN pending
              /\ pc[pending[X]] = "waiting"
              /\ kind[pending[X]] = "historical_data"
              /\ Dispatches(w.frame)) =>
                 /\ X \notin DOMAIN pending'
                 /\ chan'[pending[X]].val = Some(HistoricalDataMsg(w.start, TxtEnd, w.bars))
       /\ \A c \in Calls :
             (/\ pc[c] = "waiting"
              /\ kind[c] = "historical_data"
              /\ chan[c].val.some
              /\ chan[c].val.val.type = "HistoricalData") =>
                 /\ result'[c].tag # "Timeout"
                 /\ pc'[c] = "done" =>
                       /\ result'[c] = Ok(chan[c].val.val.data.bars)
                       /\ req_id[c] \notin DOMAIN pending']_vars

\* Field 0 of the reply as the protocol defines fields: the bytes after the first
\* four are split on NUL and only the trailing empty token is discarded. None when
\* there is no field.
ReplyField0(reply) ==
    LET tokens == SplitNul(SubSeq(reply, 5, Len(reply)), 1, <<>>)
    IN  IF Len(tokens) <= 1 THEN None ELSE Some(tokens[1])

\* The reply is too short, not UTF-8, or its field 0 is absent (missing or the
\* empty token) or is no number.
BadReply(reply) ==
    \/ Len(reply) < 4
    \/ ~IsUtf8From(reply, 5)
    \/ ~ReplyField0(reply).some
    \/ ReplyField0(reply).val = <<>>
    \/ ~ParseU32(ReplyField0(reply).val).some

\* Whether the start-session frame, or its first part, was written.
StartApiWritten == \E i \in 1..Len(bytes) : bytes[i].what = "start_header"

\* C17: a failed step of the handshake ends connect with an Io or Protocol error,
\* with no client (no call made, no request written) and no reader task; a reader
\* task exists only once connect has returned Ok; connect gets past the parse of
\* the reply only for a reply that is long enough, UTF-8 and has a numeric field
\* 0; and no start-session frame is written when connect ends with a Protocol
\* error.
C17_HandshakeFailureAborts ==
    stage \in {"connect", "greeting", "read", "parse", "start_header", "start_payload",
               "start_flush", "sleep", "ready", "failed"} =>
        /\ stage = "failed" =>
              /\ output.tag \in {"Io", "Protocol"}
              /\ pump_pc = "unspawned"
              /\ wire_out = <<>>
              /\ \A c \in Calls : pc[c] = "idle"
        /\ pump_pc # "unspawned" => stage = "ready" /\ output.tag = "Ok"
        /\ stage \in {"start_header", "start_payload", "start_flush", "sleep", "ready"}
              => ~BadReply(input)
        /\ output.tag = "Protocol" => ~StartApiWritten

\* The writes of a completed handshake, in order.
HandshakeWrites ==
    <<[what |-> "greeting", bytes |-> Greeting],
      [what |-> "start_header", bytes |-> FrameHeader(StartApiPayload)],
      [what |-> "start_payload", bytes |-> StartApiPayload]>>

\* C18: what connect has written is a prefix of greeting, start-session header,
\* start-session payload; the reply is read only after the greeting is written and
\* the start-session frame is written only after a reply with a version is read;
\* the client is returned and the reader task runs only after the whole
\* start-session frame is written; and no request is registered or written
\* before the client is returned.
C18_HandshakeOrder ==
    stage \in {"connect", "greeting", "read", "parse", "start_header", "start_payload",
               "start_flush", "sleep", "ready", "failed"} =>
        /\ Len(bytes) <= 3
        /\ \A i \in 1..Len(bytes) : bytes[i] = HandshakeWrites[i]
        /\ stage \in {"read", "parse"} => Len(bytes) = 1
        /\ input # <<>> => Len(bytes) >= 1
        /\ StartApiWritten => ServerVersion(input).some
        /\ (stage = "ready" \/ pump_pc # "unspawned" \/ output.tag = "Ok") =>
              /\ stage = "ready" /\ pump_pc # "unspawned" /\ output.tag = "Ok"
              /\ bytes = HandshakeWrites
              /\ output.server_version = ServerVersion(input).val
        /\ (wire_out # <<>> \/ pending # <<>> \/ \E c \in Calls : pc[c] # "idle") =>
              stage = "ready" /\ bytes = HandshakeWrites

\* The client was returned after the complete handshake and has written a request.
C18_Witness ==
    /\ stage = "ready"
    /\ bytes = HandshakeWrites
    /\ wire_out # <<>>

\* C19: when the reader task dispatches an error message whose id field is 0,
\* negative, no number, empty or absent, the registry and every channel are as
\* before and the reader task goes on.
C19_ConnectionErrorsResolveNothing ==
    [][\A f \in ConnectionErrorFrames :
           (pending # <<>> /\ Dispatches(f)) =>
               /\ pending' = pending
               /\ chan' = chan
               /\ pump_pc' # "panicked"]_vars

\* C20: when the reader task dispatches a frame whose message id is unknown, or
\* whose field 0 is empty, absent or no number, the registry and every channel
\* are as before and the reader task goes on reading.
C20_UnroutableFramesIgnored ==
    [][\A f \in UnroutableFrames :
           (pending # <<>> /\ Dispatches(f)) =>
               /\ pending' = pending
               /\ chan' = chan
               /\ pump_pc' \in {"read", "extract"}]_vars

\* The calls that have allocated their id.
Started == {c \in Calls : pc[c] # "idle"}

\* C21: a call that registers an id the registry already holds fails, and the
\* registry and the channels of the other calls are as before.
C21_DuplicateRegisterFails ==
    [][\A c \in Calls :
           (pc[c] = "allocated" /\ pc'[c] # "allocated"
            /\ req_id[c] \in DOMAIN pending) =>
               /\ pending' = pending
               /\ \A d \in Calls \ {c} : chan'[d] = chan[d]
               /\ pc'[c] = "done"
               /\ result'[c].tag \notin {"none", "Ok"}]_vars

\* C22: every allocated id is at least 1000, so above 0, and the ids of the calls
\* increase in the order of the calls.
C22_IdsIncreaseFrom1000 ==
    \A c \in Started :
        /\ req_id[c] >= FirstReqId
        /\ req_id[c] > 0
        /\ \A d \in Started : c < d => req_id[c] < req_id[d]

\* The caller of call c has given up: its Receiver is dropped.
Abandoned(c) == pc[c] = "done" /\ ~chan[c].rx_alive

\* C23: when the reader task dispatches a response or an error for a registered
\* id whose caller has given up, the entry is removed, nothing is delivered, the
\* other entries and channels are as before and the reader task goes on; the
\* same holds for the account-download-end message when every registered caller
\* has given up: one entry is removed and nothing is delivered.
C23_AbandonedSinkIgnored ==
    [][/\ \A X \in AnsweredIds : \A f \in ResponsesFor(X) :
             (/\ X \in DOMAIN pending
              /\ Abandoned(pending[X])
              /\ Dispatches(f)) =>
                 /\ X \notin DOMAIN pending'
                 /\ pump_pc' \in {"read", "extract"}
                 /\ ~chan'[pending[X]].val.some
                 /\ \A k \in DOMAIN pending \ {X} : EntryUntouched(k)
       /\ (/\ pending # <<>>
           /\ \A k \in DOMAIN pending : Abandoned(pending[k])
           /\ Dispatches(AccountDownloadEndFrame)) =>
              /\ pump_pc' \in {"read", "extract"}
              /\ \E k \in DOMAIN pending : pending' = MapRemove(pending, k)
              /\ \A c \in Calls : chan'[c].val = chan[c].val]_vars

\* C23's case: a call timed out, and afterwards the reader task removed its entry
\* and goes on reading.
C23_Witness ==
    \E c \in Calls :
        /\ result[c].tag = "Timeout"
        /\ req_id[c] \notin DOMAIN pending
        /\ ~chan[c].tx_alive
        /\ ~chan[c].val.some
        /\ pump_pc = "read"

\* C24: a call holds the guard of the registry only between its lock and its
\* insert, never while it sends or waits; the reader task holds it only between
\* its lock and the end of the arm, never while it reads or decodes; and when the
\* reader task waits for the guard, the holder is a call about to insert and
\* release, never a call that is sending or waiting for its response.
C24_ShortCriticalSections ==
    stage = "guard" =>
        /\ \A c \in Calls : output.holder = c <=> pc[c] = "insert"
        /\ output.holder = PumpHolder <=> pump_pc = "locked"
        /\ \A c \in Calls :
              pc[c] \in {"send_header", "send_payload", "send_flush", "waiting"}
                  => output.holder # c
        /\ pump_pc \in {"read", "extract"} => output.holder # PumpHolder
        /\ (pump_pc = "lock" /\ output.holder # NoHolder) =>
              /\ output.holder \in Calls
              /\ pc[output.holder] = "insert"

\* C24's case: the reader task holds the guard while one call waits for its
\* response and the other call is writing its request.
C24_Witness ==
    /\ stage = "guard"
    /\ output.holder = PumpHolder
    /\ \E c \in Calls : pc[c] = "waiting"
    /\ \E c \in Calls : pc[c] = "send_payload"

\* C25: recv_buf is a queue of the bytes read: a read appends to it, and bytes
\* leave it only as its first complete message, when the dispatch of that message
\* is finished (or all at once when the task panics or ends). The dispatch that
\* holds the guard is that of the first message of recv_buf, its registry update
\* is a resolution of that message, and the message leaves recv_buf in the same
\* step, before the next message is extracted. An entry leaves the registry only
\* in such a step.
C25_DispatchInArrivalOrder ==
    [][stage = "guard" =>
        /\ recv_buf' # recv_buf =>
              \/ /\ pump_pc = "read"
                 /\ pump_pc' = "extract"
                 /\ IsPrefix(recv_buf, recv_buf')
              \/ /\ pump_pc \in {"extract", "locked"}
                 /\ pump_pc' = "extract"
                 /\ extract_message(recv_buf).some
                 /\ recv_buf' = extract_message(recv_buf).val.rest
              \/ /\ pump_pc' \in {"panicked", "ended"}
                 /\ recv_buf' = <<>>
        /\ (pump_pc = "locked" /\ pump_pc' # "locked") =>
              /\ extract_message(recv_buf).some
              /\ output.decision = DecodeMessage(FirstMessage(recv_buf))
              /\ [panic |-> FALSE, pending |-> pending', chan |-> chan']
                     \in Resolve(output.decision, pending, chan)
              /\ recv_buf' = extract_message(recv_buf).val.rest
              /\ pump_pc' = "extract"
        /\ (\E k \in DOMAIN pending : k \notin DOMAIN pending') => pump_pc = "locked"]_vars

\* C25's case: one read brought the error for the second request and then the
\* response to the first: the error was delivered to the second call, and the
\* reader task now holds the guard to resolve the first request, whose message is
\* all that is left in recv_buf.
C25_Witness ==
    /\ stage = "guard"
    /\ pump_pc = "locked"
    /\ chan[2].val.some
    /\ FirstReqId + 1 \notin DOMAIN pending
    /\ FirstReqId \in DOMAIN pending
    /\ recv_buf = encode_frame(HistoricalFrame(Dec(FirstReqId), Dec(1), Bar1Fields))

\* C26: when the reader task is about to read, recv_buf holds no complete
\* message: it holds exactly the bytes delivered after the messages dispatched so
\* far, and they are the beginning of a message that is not complete.
C26_NoCompleteFrameAtRead ==
    (stage = "stream" /\ pump_pc = "read") =>
        /\ ~extract_message(recv_buf).some
        /\ Delivered = StreamBytes(output) \o recv_buf
        /\ IsPrefix(output, input)
        /\ recv_buf # <<>> =>
              /\ Len(output) < Len(input)
              /\ IsPrefix(recv_buf, encode_frame(input[Len(output) + 1]))
              /\ recv_buf # encode_frame(input[Len(output) + 1])

\* C26's case: one read brought the first frame and a part of the header of the
\* second: the first message was dispatched and the part is what recv_buf holds.
C26_Witness ==
    /\ stage = "stream"
    /\ pump_pc = "read"
    /\ Len(output) = 1
    /\ Len(recv_buf) \in 1..3
    /\ Len(bytes) + Len(recv_buf) = Len(encode_frame(input[2]))

\* C27: extract_message returns None for a buffer of fewer than 4 bytes and for
\* one whose header declares more bytes than follow it; otherwise it returns as
\* message exactly the declared number of bytes after the header and as rest all
\* the bytes after them, unchanged. (The buffers are shorter than 65536 bytes, so
\* a header whose first two bytes are not 0 declares more than is buffered.)
C27_ExtractExact ==
    stage = "applied" =>
        LET n == Len(input)
        IN  IF n < 4 THEN output = None
            ELSE IF input[1] # 0 \/ input[2] # 0 \/ input[3] * 256 + input[4] > n - 4
            THEN output = None
            ELSE LET declared == input[3] * 256 + input[4]
                 IN  /\ output.some
                     /\ Len(output.val.msg) = declared
                     /\ output.val.msg = SubSeq(input, 5, 4 + declared)
                     /\ output.val.rest = SubSeq(input, 5 + declared, n)
                     /\ SubSeq(input, 1, 4) \o output.val.msg \o output.val.rest = input

\* C27's case: a buffer that holds a frame of two bytes and two bytes more.
C27_Witness ==
    /\ stage = "applied"
    /\ output.some
    /\ Len(output.val.msg) = 2
    /\ Len(output.val.rest) = 2

\* The positions of a call inside send_raw, the writer guard held.
Sending == {"send_header", "send_payload", "send_flush"}

\* C28: a call whose write or flush fails returns the I/O error, with the writer
\* guard free afterwards and no other call's position or result changed; the
\* guard is only ever held by a call inside send_raw, so a registered call can
\* take it whenever no call is inside send_raw, after a failed send as well.
C28_GuardFreeAfterWriteError ==
    [][/\ \A c \in Calls :
             (pc[c] \in Sending /\ pc'[c] = "done") =>
                 /\ writer = c
                 /\ writer' = 0
                 /\ result'[c] = ErrIo
                 /\ \A d \in Calls \ {c} : result'[d] = result[d] /\ pc'[d] = pc[d]
       /\ writer' # 0 => pc'[writer'] \in Sending
       /\ \A c \in Calls : pc'[c] \in Sending => writer' = c
       /\ \A d \in Calls :
             (pc[d] = "registered" /\ \A c \in Calls : pc[c] \notin Sending) =>
                 ENABLED SendLock(d)]_vars

\* C28's case: the first call's send failed, and the second call took the writer
\* guard afterwards and is writing.
C28_Witness ==
    /\ result[1] = ErrIo
    /\ writer = 2
    /\ pc[2] = "send_payload"

C30_ReplyBoundary ==
    stage \in {"reply_parse", "reply_ready", "reply_failed"} =>
        /\ input = HandshakeReply
        /\ stage # "reply_failed"
        /\ stage = "reply_ready" =>
              /\ output.server_version = 176
              /\ IsPrefix(output.dispatched, output.sent)
              /\ (bytes = <<>> /\ pump_pc = "read") =>
                    output.dispatched = output.sent /\ recv_buf = <<>>

\* C31: the kinds are known to from_u32, and when the reader task dispatches a
\* message of one of them the registry and every channel are as before and the
\* reader task reads on; so a call that waits while only such messages arrive
\* keeps its entry and is handed nothing.
C31_UnroutedKindsResolveNothing ==
    [][stage = "unrouted" =>
        /\ \A k \in UnroutedKinds : from_u32(k) # "None"
        /\ (bytes # <<>> /\ bytes' = Tail(bytes)) =>
              /\ Head(bytes) \in UnroutedFrames
              /\ pending' = pending
              /\ chan' = chan
              /\ pump_pc' = "read"
              /\ recv_buf' = <<>>
        /\ pc'[1] = "waiting" =>
              /\ req_id[1] \in DOMAIN pending'
              /\ ~chan'[1].val.some
              /\ chan'[1].tx_alive]_vars

\* C31's case: the gateway sent MaxFrames messages of different kinds, all were
\* dispatched, and the call still waits with its entry registered.
C31_Witness ==
    /\ stage = "unrouted"
    /\ Len(input) = MaxFrames
    /\ input[1] # input[2]
    /\ bytes = <<>>
    /\ pc[1] = "waiting"
    /\ req_id[1] \in DOMAIN pending
    /\ ~chan[1].val.some

\* The getters that consume a field.
Getters == {"next_string", "next", "next_i32", "next_f64", "next_bool"}

\* C32: the position of the cursor is between 0 and the number of fields, which
\* no call changes; a getter leaves the position or advances it by one; a getter
\* called at the end leaves the position, and there next_string and next return
\* None, next_i32 0, next_f64 0.0 and next_bool false; remaining() never indexes
\* out of range and returns the fields from the position on.
C32_CursorInRange ==
    stage \in {"cursor", "overflow_panic", "index_panic"} =>
        LET it   == output.it
            last == output.last
            n    == Len(it.fields)
        IN  /\ stage # "index_panic"
            /\ it.fields = FieldIteratorNew(input).fields
            /\ it.position \in 0..n
            /\ last.from \in 0..n
            /\ last.op \in Getters => it.position - last.from \in {0, 1}
            /\ (last.op \in Getters /\ last.from = n) =>
                  /\ it.position = n
                  /\ ~last.some
                  /\ last.text = <<>>
                  /\ last.num = 0
                  /\ last.f = F64Zero
                  /\ ~last.flag
            /\ (last.op \in Getters /\ last.from < n) => it.position = last.from + 1
            /\ last.op = "remaining" =>
                  /\ Len(last.rest) = n - it.position
                  /\ \A i \in 1..Len(last.rest) : last.rest[i] = it.fields[it.position + i]

\* C32's case: on the cursor of test_field_iterator the position reached the end
\* of the four fields, and next_i32 was called there and left it at the end.
C32_Witness ==
    /\ stage = "cursor"
    /\ input = TestFieldsPayload
    /\ Len(output.it.fields) = 4
    /\ output.last.op = "next_i32"
    /\ output.last.from = 4
    /\ output.it.position = 4

====
